---- MODULE Spec2Model ----
(***************************************************************************)
(* A model of resume-genie: the AI customization engine                    *)
(* (ai/customization_engine.py) with the transport it calls                *)
(* (ai/ai_client.py), the response parsers of the engine, and the dynamic  *)
(* template engine's conditional stage (core/template_manager.py).         *)
(*                                                                         *)
(* Text is modelled as a sequence of one-character strings, so that        *)
(* str.strip, str.split, str.startswith and slicing are computed as Python *)
(* computes them.  Objects that the code mutates through attribute writes  *)
(* (ResumeData, Experience, ProjectData) live in a heap and are named by   *)
(* their address, so that copy.deepcopy and aliasing are distinguishable.  *)
(***************************************************************************)
EXTENDS Integers, Sequences, FiniteSets, TLC

VARIABLES
    heap,                  \* the objects: a sequence, the address is the index
    resume_data,           \* address of the caller's ResumeData (the argument)
    customized_resume,     \* address of the local customized_resume, 0 before it exists
    cb_resume_data,        \* ContextBuilder.resume_data (an address, 0 for None)
    pc,                    \* position inside customize_for_job
    exp_idx,               \* iterations of the for loop of optimize_experience that are over
    optimized_exp,         \* address of the local optimized_exp, 0 outside an iteration
    optimized_experiences, \* the local list optimize_experience builds
    calls,                 \* every request handed to the AIClient, in order, with its answer
    result,                \* address customize_for_job returned, 0 before it returns
    input0,                \* the value of the argument when customize_for_job was entered
    fpc,                   \* position of the function-level scenarios ("off" in the engine's)
    fin,                   \* the arguments of the function under study
    fout                   \* what it returned

vars == <<heap, resume_data, customized_resume, cb_resume_data, pc, exp_idx,
          optimized_exp, optimized_experiences, calls, result, input0, fpc, fin, fout>>

engine_vars == <<heap, resume_data, customized_resume, cb_resume_data, pc, exp_idx,
                 optimized_exp, optimized_experiences, calls, result, input0>>

fn_vars == <<fpc, fin, fout>>

(***************************************************************************)
(* Bounds of the model.                                                    *)
(***************************************************************************)
\* longest experience list of an input resume
MaxExp == 2
\* longest project list of an input resume
MaxProj == 2

\* longest response text of the highlight-parsing scenario, in characters
MaxContentLen == 4
\* longest category list of the skills scenario
MaxCats == 2
\* most lines of a response of the projects scenario
MaxLines == 3

\* most conditional blocks of a template of the template scenario
MaxBlocks == 2
\* most constructs (texts, placeholders, loops) of a template of the stages scenario
MaxPieces == 2
\* longest first text of the escaping scenario
MaxEscapeLen == 2
\* most retries a client of the transport scenario is built with
MaxRetries == 3
\* max_retries of AIClient.__init__ when none is given
DefaultMaxRetries == 3

(***************************************************************************)
(* Python text operations on sequences of characters.                      *)
(***************************************************************************)
\* Python's None; never equal to a text, whose elements are single characters
None == <<"None">>

\* the characters str.strip removes
IsSpace(c) == c \in {" ", "\n", "\t"}

RECURSIVE LStrip(_)
LStrip(s) == IF s = <<>> THEN s
             ELSE IF IsSpace(Head(s)) THEN LStrip(Tail(s)) ELSE s

RECURSIVE RStrip(_)
RStrip(s) == IF s = <<>> THEN s
             ELSE IF IsSpace(s[Len(s)]) THEN RStrip(SubSeq(s, 1, Len(s) - 1)) ELSE s

\* str.strip()
Strip(s) == RStrip(LStrip(s))

\* s.startswith(p)
StartsWith(s, p) == Len(s) >= Len(p) /\ SubSeq(s, 1, Len(p)) = p

\* s.endswith(p)
EndsWith(s, p) == Len(s) >= Len(p) /\ SubSeq(s, Len(s) - Len(p) + 1, Len(s)) = p

\* the slice s[n:]
Drop(s, n) == SubSeq(s, n + 1, Len(s))

\* c in s
Contains(s, c) == \E i \in 1..Len(s) : s[i] = c

\* s.split(sep) for a one-character separator: always at least one piece
RECURSIVE Split(_, _)
Split(s, sep) ==
    IF ~Contains(s, sep) THEN <<s>>
    ELSE LET i == CHOOSE k \in 1..Len(s) :
                      s[k] = sep /\ \A j \in 1..(k - 1) : s[j] # sep
         IN  <<SubSeq(s, 1, i - 1)>> \o Split(Drop(s, i), sep)

\* sep.join(parts)
RECURSIVE Join(_, _)
Join(parts, sep) ==
    IF parts = <<>> THEN <<>>
    ELSE IF Len(parts) = 1 THEN parts[1]
    ELSE parts[1] \o sep \o Join(Tail(parts), sep)

\* the concatenation of a list of texts
RECURSIVE Concat(_)
Concat(parts) == IF parts = <<>> THEN <<>> ELSE Head(parts) \o Concat(Tail(parts))

\* s.split(): the maximal runs of non-whitespace characters
RECURSIVE Words(_)
Words(s) ==
    LET t == LStrip(s)
    IN  IF t = <<>> THEN <<>>
        ELSE LET n == IF \E k \in 1..Len(t) : IsSpace(t[k])
                      THEN (CHOOSE k \in 1..Len(t) :
                                IsSpace(t[k]) /\ \A j \in 1..(k - 1) : ~IsSpace(t[j])) - 1
                      ELSE Len(t)
             IN  <<SubSeq(t, 1, n)>> \o Words(Drop(t, n))

\* s.rstrip(':')
RECURSIVE RStripColon(_)
RStripColon(s) == IF s # <<>> /\ s[Len(s)] = ":"
                  THEN RStripColon(SubSeq(s, 1, Len(s) - 1)) ELSE s

Digits == <<"0", "1", "2", "3", "4", "5", "6", "7", "8", "9">>

IsDigit(c) == \E d \in 1..10 : Digits[d] = c

DigitValue(c) == (CHOOSE d \in 1..10 : Digits[d] = c) - 1

RECURSIVE DigitsValue(_)
DigitsValue(s) == IF s = <<>> THEN 0
                  ELSE 10 * DigitsValue(SubSeq(s, 1, Len(s) - 1)) + DigitValue(s[Len(s)])

\* whether int(s) succeeds: an optional sign and then digits
\* (the token comes out of str.split, so it holds no whitespace)
IsIntLiteral(s) ==
    LET body == IF s # <<>> /\ Head(s) \in {"-", "+"} THEN Tail(s) ELSE s
    IN  body # <<>> /\ \A i \in 1..Len(body) : IsDigit(body[i])

\* int(s) where it succeeds
IntValue(s) ==
    IF Head(s) = "-" THEN 0 - DigitsValue(Tail(s))
    ELSE IF Head(s) = "+" THEN DigitsValue(Tail(s))
    ELSE DigitsValue(s)

\* str(n) for 0 <= n <= 99
IntText(n) == IF n < 10 THEN <<Digits[n + 1]>>
              ELSE <<Digits[(n \div 10) + 1], Digits[(n % 10) + 1]>>

\* the truth value Python gives an Optional[str]
Truthy(s) == s # None /\ s # <<>>

(***************************************************************************)
(* The transport: AIClient (ai/ai_client.py).                              *)
(* An outcome is what one session.post ends with: an HTTP response (its    *)
(* status, whether the body holds a choice, the text of the first choice)  *)
(* or an exception of the requests library.                                *)
(***************************************************************************)
HttpOutcome(status, choices, raw) ==
    [kind |-> "http", status |-> status, choices |-> choices, raw |-> raw]

ExceptionOutcome(kind) == [kind |-> kind, status |-> 0, choices |-> FALSE, raw |-> <<>>]

\* AIResponse(success, content, error_message, status_code); status_code 0 is None
AIResponse(success, content, error_message, status_code) ==
    [success |-> success, content |-> content,
     error_message |-> error_message, status_code |-> status_code]

\* a transport that hands the text of the first choice on as it came
ResponseContent_NoStrip(raw) == raw

\* what customize_content_with_params does with the text of the first choice:
\* data['choices'][0]['message']['content'].strip()
ResponseContent(raw) == Strip(raw)

\* AIClient.customize_content_with_params, given how the request ended
CustomizeContentWithParams(o) ==
    IF o.kind = "http" THEN
        IF o.status = 200 THEN
            IF o.choices
            THEN AIResponse(TRUE, ResponseContent(o.raw), "none", 0)
            ELSE AIResponse(FALSE, <<>>, "invalid_format", o.status)
        ELSE AIResponse(FALSE, <<>>, "status", o.status)
    ELSE IF o.kind = "timeout" THEN AIResponse(FALSE, <<>>, "timeout", 0)
    ELSE IF o.kind = "connection" THEN AIResponse(FALSE, <<>>, "connection", 0)
    ELSE IF o.kind = "request" THEN AIResponse(FALSE, <<>>, "request", 0)
    ELSE IF o.kind = "json" THEN AIResponse(FALSE, <<>>, "json", 0)
    ELSE AIResponse(FALSE, <<>>, "unexpected", 0)

\* AIClient.is_available, given how the health-check request ended
IsAvailable(o) == o.kind = "http" /\ o.status = 200

(***************************************************************************)
(* The heap: ResumeData, Experience and ProjectData objects.               *)
(***************************************************************************)
\* copy.deepcopy of a list of objects: fresh objects holding the same values
DeepCopyList(h, refs) ==
    [heap |-> h \o [i \in 1..Len(refs) |-> h[refs[i]]],
     refs |-> [i \in 1..Len(refs) |-> Len(h) + i]]

\* an assignment in place of the deep copy: the "copy" is the argument itself
DeepCopyResume_Alias(h, r) == [heap |-> h, ref |-> r]

\* copy.deepcopy(resume_data): no object of the copy is one of the original
DeepCopyResume(h, r) ==
    LET e == DeepCopyList(h, h[r].experiences)
        p == DeepCopyList(e.heap, h[r].projects)
        obj == [h[r] EXCEPT !.experiences = e.refs, !.projects = p.refs]
    IN  [heap |-> Append(p.heap, obj), ref |-> Len(p.heap) + 1]

\* the record an address denotes, field for field, with the objects it holds
DeepValue(h, r) ==
    [h[r] EXCEPT !.experiences = [i \in 1..Len(h[r].experiences) |-> h[h[r].experiences[i]]],
                 !.projects = [i \in 1..Len(h[r].projects) |-> h[h[r].projects[i]]]]

\* the addresses of the objects a record is made of
Objects(h, r) ==
    {r} \cup {h[r].experiences[i] : i \in 1..Len(h[r].experiences)}
        \cup {h[r].projects[i] : i \in 1..Len(h[r].projects)}

(***************************************************************************)
(* Literal texts of the engine.                                            *)
(***************************************************************************)
T_Dash == <<"-">>
T_DashSpace == <<"-", " ">>
\* the character U+2022, which the module's character set cannot spell
Bullet == "U+2022"

T_Bullet == <<Bullet, " ">>
T_IndentDash == <<" ", " ", "-", " ">>
T_Colon == <<":">>
T_NL == <<"\n">>
T_CommaSpace == <<",", " ">>
T_Project == <<"P", "r", "o", "j", "e", "c", "t", " ">>
T_Name == <<"N", "a", "m", "e", ":", " ">>
T_Subtitle == <<"S", "u", "b", "t", "i", "t", "l", "e", ":", " ">>
T_URL == <<"U", "R", "L", ":", " ">>
T_Description == <<"D", "e", "s", "c", "r", "i", "p", "t", "i", "o", "n", ":">>
T_Technologies == <<"T", "e", "c", "h", "n", "o", "l", "o", "g", "i", "e", "s", ":", " ">>

(***************************************************************************)
(* CustomizationEngine: the texts it sends and the parsers of the answers. *)
(***************************************************************************)
\* the guard without enhance_summary's test of current_summary.strip()
SummaryHasContent_NoStrip(summary) == Truthy(summary)

\* enhance_summary's guard and customize_for_job's: a summary that is present and not blank
SummaryHasContent(summary) == Truthy(summary) /\ Strip(summary) # <<>>

\* what enhance_summary returns for the transport's answer
EnhanceSummaryResult(resp) == IF resp.success THEN resp.content ELSE None

\* the summary customize_for_job leaves in the copy: "if customized_summary:"
SummaryAfter(current, resp) ==
    IF Truthy(EnhanceSummaryResult(resp)) THEN EnhanceSummaryResult(resp) ELSE current

\* a choice that prefers the final highlights to the unedited ones
HighlightsToOptimize_FinalFirst(exp) ==
    IF exp.highlights # <<>> THEN exp.highlights ELSE exp.unedited

\* exp.unedited if exp.unedited else exp.highlights
HighlightsToOptimize(exp) == IF exp.unedited # <<>> THEN exp.unedited ELSE exp.highlights

\* "\n".join([f"- {highlight}" ...])
HighlightsText(hs) == Join([i \in 1..Len(hs) |-> T_DashSpace \o hs[i]], T_NL)

\* the loop over response.content.split('\n') of optimize_experience
RECURSIVE HighlightsOfLines(_)
HighlightsOfLines(lines) ==
    IF lines = <<>> THEN <<>>
    ELSE LET line == Strip(Head(lines))
             rest == HighlightsOfLines(Tail(lines))
         IN  IF StartsWith(line, T_DashSpace) THEN <<Drop(line, 2)>> \o rest
             ELSE IF line # <<>> /\ ~StartsWith(line, T_Dash) THEN <<line>> \o rest
             ELSE rest

\* a parser that splits the response at blanks instead of line ends
ParseHighlights_SplitOnSpace(content) == HighlightsOfLines(Split(content, " "))

ParseHighlights(content) == HighlightsOfLines(Split(content, "\n"))

\* optimize_experience without its "if customized_highlights:" test
HighlightsAfter_NoEmptyCheck(current, resp) ==
    IF resp.success THEN ParseHighlights(resp.content) ELSE current

\* the highlights optimize_experience leaves in optimized_exp
HighlightsAfter(current, resp) ==
    IF resp.success /\ ParseHighlights(resp.content) # <<>>
    THEN ParseHighlights(resp.content) ELSE current

\* a rendering that forgets the line end after each skill
SkillsText_NoSkillNewline(skills) ==
    Concat([c \in 1..Len(skills) |->
        skills[c].category \o T_Colon \o T_NL
        \o Concat([k \in 1..Len(skills[c].skills) |->
                      <<" ", " ">> \o T_DashSpace \o skills[c].skills[k]])
        \o T_NL \o T_NL])

\* skills_text of adjust_skills, before the .strip() of the call
SkillsText(skills) ==
    Concat([c \in 1..Len(skills) |->
        skills[c].category \o T_Colon \o T_NL
        \o Concat([k \in 1..Len(skills[c].skills) |->
                      <<" ", " ">> \o T_DashSpace \o skills[c].skills[k] \o T_NL])
        \o T_NL])

SkillCategory(category, skills) == [category |-> category, skills |-> skills]

\* the loop of _parse_skills_response; st holds skills, current_category, current_skills
RECURSIVE SkillsOfLines(_, _)
SkillsOfLines(lines, st) ==
    IF lines = <<>> THEN
        \* add the last category
        IF Truthy(st.current_category) /\ st.current_skills # <<>>
        THEN Append(st.skills, SkillCategory(st.current_category, st.current_skills))
        ELSE st.skills
    ELSE
        LET raw == Head(lines)
            line == Strip(raw)
        IN  IF line = <<>> THEN SkillsOfLines(Tail(lines), st)
            ELSE IF EndsWith(line, T_Colon) /\ ~StartsWith(line, T_Dash) THEN
                SkillsOfLines(Tail(lines),
                    [skills |-> IF Truthy(st.current_category) /\ st.current_skills # <<>>
                                THEN Append(st.skills,
                                        SkillCategory(st.current_category, st.current_skills))
                                ELSE st.skills,
                     current_category |-> Strip(SubSeq(line, 1, Len(line) - 1)),
                     current_skills |-> <<>>])
            ELSE IF StartsWith(line, T_DashSpace) \/ StartsWith(line, T_Bullet) THEN
                LET skill == Strip(Drop(line, 2))
                IN  SkillsOfLines(Tail(lines),
                        IF skill # <<>>
                        THEN [st EXCEPT !.current_skills = Append(@, skill)] ELSE st)
            ELSE IF StartsWith(line, T_IndentDash) THEN
                LET skill == Strip(Drop(line, 4))
                IN  SkillsOfLines(Tail(lines),
                        IF skill # <<>>
                        THEN [st EXCEPT !.current_skills = Append(@, skill)] ELSE st)
            ELSE SkillsOfLines(Tail(lines), st)

\* an Optional[List]: None, or a list
NoList == [none |-> TRUE, value |-> <<>>]

SomeList(l) == [none |-> FALSE, value |-> l]

\* a parse that returns its list even when it is empty
ParseSkillsResponse_EmptyList(content) ==
    SomeList(SkillsOfLines(Split(content, "\n"),
                [skills |-> <<>>, current_category |-> None, current_skills |-> <<>>]))

\* _parse_skills_response: "return skills if skills else None"
ParseSkillsResponse(content) ==
    LET skills == SkillsOfLines(Split(content, "\n"),
                     [skills |-> <<>>, current_category |-> None, current_skills |-> <<>>])
    IN  IF skills # <<>> THEN SomeList(skills) ELSE NoList

\* what adjust_skills returns for the transport's answer: "if adjusted_skills:"
SkillsAfter(skills, resp) ==
    IF resp.success /\ ~ParseSkillsResponse(resp.content).none
                    /\ ParseSkillsResponse(resp.content).value # <<>>
    THEN ParseSkillsResponse(resp.content).value ELSE skills

\* projects_text of optimize_projects, before the .strip() of the call
ProjectsText(projects) ==
    Concat([i \in 1..Len(projects) |->
        T_Project \o IntText(i) \o T_Colon \o T_NL
        \o T_Name \o projects[i].name \o T_NL
        \o (IF Truthy(projects[i].subtitle)
            THEN T_Subtitle \o projects[i].subtitle \o T_NL ELSE <<>>)
        \o (IF Truthy(projects[i].url) THEN T_URL \o projects[i].url \o T_NL ELSE <<>>)
        \o T_Description \o <<" ">> \o projects[i].description \o T_NL
        \o (IF projects[i].technologies # <<>>
            THEN T_Technologies \o Join(projects[i].technologies, T_CommaSpace) \o T_NL
            ELSE <<>>)
        \o T_NL])

\* a line loop that writes the description of a line even when it has no text
RECURSIVE ProjectsOfLines_WritesBlank(_, _, _)
ProjectsOfLines_WritesBlank(lines, projects, project_index) ==
    IF lines = <<>> THEN projects
    ELSE
        LET line == Strip(Head(lines))
        IN  IF StartsWith(line, T_Project) /\ Contains(line, ":") THEN
                LET words == Words(line)
                    token == IF Len(words) >= 2 THEN RStripColon(words[2]) ELSE <<>>
                IN  IF Len(words) >= 2 /\ IsIntLiteral(token)
                    THEN ProjectsOfLines_WritesBlank(Tail(lines), projects, IntValue(token) - 1)
                    ELSE ProjectsOfLines_WritesBlank(Tail(lines), projects, project_index)
            ELSE IF StartsWith(line, T_Description) /\ project_index >= 0
                    /\ project_index < Len(projects) THEN
                ProjectsOfLines_WritesBlank(Tail(lines),
                    [projects EXCEPT ![project_index + 1].description = Strip(Drop(line, 12))],
                    project_index)
            ELSE ProjectsOfLines_WritesBlank(Tail(lines), projects, project_index)

\* the loop of _parse_projects_response over the lines; projects are the values of
\* optimized_projects, project_index the 0-based index in force
RECURSIVE ProjectsOfLines(_, _, _)
ProjectsOfLines(lines, projects, project_index) ==
    IF lines = <<>> THEN projects
    ELSE
        LET line == Strip(Head(lines))
        IN  IF StartsWith(line, T_Project) /\ Contains(line, ":") THEN
                LET words == Words(line)
                    token == IF Len(words) >= 2 THEN RStripColon(words[2]) ELSE <<>>
                IN  IF Len(words) >= 2 /\ IsIntLiteral(token)
                    THEN ProjectsOfLines(Tail(lines), projects, IntValue(token) - 1)
                    ELSE ProjectsOfLines(Tail(lines), projects, project_index)
            ELSE IF StartsWith(line, T_Description) /\ project_index >= 0
                    /\ project_index < Len(projects) THEN
                LET new_description == Strip(Drop(line, 12))
                IN  ProjectsOfLines(Tail(lines),
                        IF new_description # <<>>
                        THEN [projects EXCEPT ![project_index + 1].description = new_description]
                        ELSE projects,
                        project_index)
            ELSE ProjectsOfLines(Tail(lines), projects, project_index)

\* a parser that writes the new description into the name attribute
ParseProjectsResponse_WrongField(h, content, refs) ==
    LET c == DeepCopyList(h, refs)
        values == ProjectsOfLines(Split(content, "\n"),
                                  [i \in 1..Len(refs) |-> c.heap[c.refs[i]]], -1)
        wrong == [i \in 1..Len(refs) |->
                     [h[refs[i]] EXCEPT !.name =
                         IF values[i].description # h[refs[i]].description
                         THEN values[i].description ELSE @]]
    IN  [heap |-> SubSeq(c.heap, 1, Len(h)) \o wrong, refs |-> c.refs]

\* a parser whose index starts at the first project instead of at -1
ParseProjectsResponse_FromFirst(h, content, refs) ==
    LET c == DeepCopyList(h, refs)
        values == ProjectsOfLines(Split(content, "\n"),
                                  [i \in 1..Len(refs) |-> c.heap[c.refs[i]]], 0)
    IN  [heap |-> [a \in 1..Len(c.heap) |->
                     IF \E i \in 1..Len(refs) : c.refs[i] = a
                     THEN values[CHOOSE i \in 1..Len(refs) : c.refs[i] = a]
                     ELSE c.heap[a]],
         refs |-> c.refs]

\* _parse_projects_response: deep copies of the originals, with the descriptions
\* the response gives written into the copies
ParseProjectsResponse(h, content, refs) ==
    LET c == DeepCopyList(h, refs)
        values == ProjectsOfLines(Split(content, "\n"),
                                  [i \in 1..Len(refs) |-> c.heap[c.refs[i]]], -1)
    IN  [heap |-> [a \in 1..Len(c.heap) |->
                     IF \E i \in 1..Len(refs) : c.refs[i] = a
                     THEN values[CHOOSE i \in 1..Len(refs) : c.refs[i] = a]
                     ELSE c.heap[a]],
         refs |-> c.refs]

(***************************************************************************)
(* The records of models/resume_data.py and the inputs of the scenarios.   *)
(***************************************************************************)
JobTitle(name, startdate, enddate) ==
    [name |-> name, startdate |-> startdate, enddate |-> enddate]

Experience(company, titles, highlights, unedited) ==
    [company |-> company, titles |-> titles, highlights |-> highlights, unedited |-> unedited]

ProjectData(name, description, subtitle, url, technologies, highlights) ==
    [name |-> name, description |-> description, subtitle |-> subtitle, url |-> url,
     technologies |-> technologies, highlights |-> highlights]

\* experiences and projects hold the addresses of their objects
ResumeData(basic, summary, experiences, education, projects, research, skills) ==
    [basic |-> basic, summary |-> summary, experiences |-> experiences,
     education |-> education, projects |-> projects, research |-> research,
     skills |-> skills]

\* the sequences over S of length at most n
SeqsUpTo(S, n) == UNION {[1..k -> S] : k \in 0..n}

\* summaries: absent, empty, blank, present
EngineSummaries == {None, <<>>, <<" ">>, <<"s">>}

\* experiences: without highlights, with final highlights only, with both lists
EngineExperiences ==
    {Experience(<<"A">>, <<JobTitle(<<"T">>, <<"1">>, <<"2">>)>>, hu[1], hu[2]) :
        hu \in {<< <<>>, <<>> >>, << <<<<"x">>>>, <<>> >>, << <<<<"x">>>>, <<<<"u">>>> >>}}

EngineSkills == {<<>>, <<SkillCategory(<<"c">>, <<<<"k">>>>)>>}

EngineProjects == {ProjectData(<<"n">>, <<"d">>, None, <<"w">>, <<<<"k">>, <<"l">>>>, <<>>)}

\* the heap that holds one resume: its experiences, its projects, then the record
ResumeHeap(summary, experiences, skills, projects) ==
    experiences \o projects
    \o <<ResumeData("basic", summary, [i \in 1..Len(experiences) |-> i], "education",
                    [i \in 1..Len(projects) |-> Len(experiences) + i], "research", skills)>>

\* the ways a content request of a section can end: a timeout, or a 200 answer
\* holding one of a few texts (blank, unparsable and parsable ones)
RawResponses(section) ==
    IF section = "summary" THEN {<<" ">>, <<" ", "t">>}
    ELSE IF section = "experience" THEN {<<"-">>, <<"-", " ", "y">>}
    ELSE IF section = "skills" THEN {<<"k">>, <<"c", ":", "\n", "-", " ", "j">>}
    ELSE {T_Description \o <<" ", "e">>,
          T_Project \o <<"1", ":", "\n">> \o T_Description \o <<" ", "e">>}

Outcomes(section) ==
    {ExceptionOutcome("timeout")} \cup {HttpOutcome(200, TRUE, r) : r \in RawResponses(section)}

\* the ways the health check can end
ProbeOutcomes == {ExceptionOutcome("connection"), HttpOutcome(200, TRUE, <<>>)}

(***************************************************************************)
(* CustomizationEngine.customize_for_job as a state machine: one action    *)
(* from each blocking request to the next.                                 *)
(***************************************************************************)
NoResponse == AIResponse(FALSE, <<>>, "pending", 0)

\* the skills statement placed before the experience statement
NextSection_SkillsFirst(section) ==
    IF section = "summary" THEN "skills"
    ELSE IF section = "skills" THEN "experience"
    ELSE IF section = "experience" THEN "projects"
    ELSE "done"

\* the order of the statements of customize_for_job (lines 81-98): where control
\* goes when a section is finished
NextSection(section) ==
    IF section = "summary" THEN "experience"
    ELSE IF section = "experience" THEN "skills"
    ELSE IF section = "skills" THEN "projects"
    ELSE "done"

\* what customize_for_job has returned once control is at `position`
Returned(position, current, copy) == IF position = "done" THEN copy ELSE current

Call(section, index, content) ==
    [section |-> section, index |-> index, content |-> content,
     answered |-> FALSE, outcome |-> ExceptionOutcome("pending"), resp |-> NoResponse]

\* the log with its last request answered
Answered(log, o, resp) ==
    [log EXCEPT ![Len(log)] = [@ EXCEPT !.answered = TRUE, !.outcome = o, !.resp = resp]]

EngineInit ==
    /\ \E summary \in EngineSummaries, skills \in EngineSkills,
          experiences \in SeqsUpTo(EngineExperiences, MaxExp),
          projects \in SeqsUpTo(EngineProjects, MaxProj) :
            /\ heap = ResumeHeap(summary, experiences, skills, projects)
            /\ resume_data = Len(experiences) + Len(projects) + 1
    /\ input0 = DeepValue(heap, resume_data)
    /\ customized_resume = 0
    /\ cb_resume_data = 0
    /\ pc = "start"
    /\ exp_idx = 0
    /\ optimized_exp = 0
    /\ optimized_experiences = <<>>
    /\ calls = <<>>
    /\ result = 0

FnOff == fpc = "off" /\ fin = <<>> /\ fout = <<>>

\* lines 68-77: the deep copy, context_builder.set_resume_data, the health check is sent
CustomizeForJob ==
    /\ pc = "start"
    /\ LET c == DeepCopyResume(heap, resume_data)
       IN  /\ heap' = c.heap
           /\ customized_resume' = c.ref
    /\ cb_resume_data' = resume_data
    /\ calls' = Append(calls, Call("probe", 0, <<>>))
    /\ pc' = "probe"
    /\ UNCHANGED <<resume_data, exp_idx, optimized_exp, optimized_experiences, result, input0>>
    /\ UNCHANGED fn_vars

\* lines 77-79: is_available returns; an unreachable endpoint ends the call
IsAvailableReturn(o) ==
    /\ pc = "probe"
    /\ calls' = Answered(calls, o, AIResponse(IsAvailable(o), <<>>, "probe", 0))
    /\ pc' = (IF IsAvailable(o) THEN "summary" ELSE "done")
    /\ result' = Returned(pc', result, customized_resume)
    /\ UNCHANGED <<heap, resume_data, customized_resume, cb_resume_data, exp_idx,
                   optimized_exp, optimized_experiences, input0>>
    /\ UNCHANGED fn_vars

\* lines 82-83, 110-123: a summary with content is sent
EnhanceSummaryCall ==
    /\ pc = "summary"
    /\ SummaryHasContent(heap[customized_resume].summary)
    /\ calls' = Append(calls, Call("summary", 0, heap[customized_resume].summary))
    /\ pc' = "summary_wait"
    /\ UNCHANGED <<heap, resume_data, customized_resume, cb_resume_data, exp_idx,
                   optimized_exp, optimized_experiences, result, input0>>
    /\ UNCHANGED fn_vars

\* lines 82, 110-111: no summary or a blank one: nothing is sent
EnhanceSummarySkip ==
    /\ pc = "summary"
    /\ ~SummaryHasContent(heap[customized_resume].summary)
    /\ pc' = NextSection("summary")
    /\ result' = Returned(pc', result, customized_resume)
    /\ UNCHANGED <<heap, resume_data, customized_resume, cb_resume_data, exp_idx,
                   optimized_exp, optimized_experiences, calls, input0>>
    /\ UNCHANGED fn_vars

\* lines 125-130, 84-86: the answer to the summary request
EnhanceSummaryReturn(o) ==
    /\ pc = "summary_wait"
    /\ LET resp == CustomizeContentWithParams(o)
       IN  /\ calls' = Answered(calls, o, resp)
           /\ heap' = [heap EXCEPT ![customized_resume].summary = SummaryAfter(@, resp)]
    /\ pc' = NextSection("summary")
    /\ result' = Returned(pc', result, customized_resume)
    /\ UNCHANGED <<resume_data, customized_resume, cb_resume_data, exp_idx,
                   optimized_exp, optimized_experiences, input0>>
    /\ UNCHANGED fn_vars

\* lines 142-143, 89: an empty experience list is returned as it is
OptimizeExperienceEmpty ==
    /\ pc = "experience"
    /\ heap[customized_resume].experiences = <<>>
    /\ pc' = NextSection("experience")
    /\ result' = Returned(pc', result, customized_resume)
    /\ UNCHANGED <<heap, resume_data, customized_resume, cb_resume_data, exp_idx,
                   optimized_exp, optimized_experiences, calls, input0>>
    /\ UNCHANGED fn_vars

\* lines 148-167: an iteration whose experience has highlights: copy it and send them
ExperienceCall ==
    /\ pc = "experience"
    /\ exp_idx < Len(heap[customized_resume].experiences)
    /\ LET exp == heap[heap[customized_resume].experiences[exp_idx + 1]]
       IN  /\ HighlightsToOptimize(exp) # <<>>
           /\ heap' = Append(heap, exp)
           /\ optimized_exp' = Len(heap) + 1
           /\ calls' = Append(calls,
                  Call("experience", exp_idx + 1, HighlightsText(HighlightsToOptimize(exp))))
    /\ pc' = "experience_wait"
    /\ UNCHANGED <<resume_data, customized_resume, cb_resume_data, exp_idx,
                   optimized_experiences, result, input0>>
    /\ UNCHANGED fn_vars

\* lines 148-154, 187: an iteration whose experience has no highlights: only the copy
ExperienceSkip ==
    /\ pc = "experience"
    /\ exp_idx < Len(heap[customized_resume].experiences)
    /\ LET exp == heap[heap[customized_resume].experiences[exp_idx + 1]]
       IN  /\ HighlightsToOptimize(exp) = <<>>
           /\ heap' = Append(heap, exp)
           /\ optimized_experiences' = Append(optimized_experiences, Len(heap) + 1)
    /\ exp_idx' = exp_idx + 1
    /\ UNCHANGED <<resume_data, customized_resume, cb_resume_data, pc,
                   optimized_exp, calls, result, input0>>
    /\ UNCHANGED fn_vars

\* an engine that sends the request of an experience once more after a failed answer
ExperienceReturn_Retry(o) ==
    /\ pc = "experience_wait"
    /\ LET resp == CustomizeContentWithParams(o)
           again == ~resp.success
                    /\ Cardinality({i \in DOMAIN calls : calls[i].section = "experience"
                                        /\ calls[i].index = exp_idx + 1}) < 2
       IN  /\ calls' = IF again
                       THEN Append(Answered(calls, o, resp),
                                   Call("experience", exp_idx + 1, calls[Len(calls)].content))
                       ELSE Answered(calls, o, resp)
           /\ heap' = [heap EXCEPT ![optimized_exp].highlights = HighlightsAfter(@, resp)]
           /\ optimized_experiences' = IF again THEN optimized_experiences
                                       ELSE Append(optimized_experiences, optimized_exp)
           /\ optimized_exp' = IF again THEN optimized_exp ELSE 0
           /\ exp_idx' = IF again THEN exp_idx ELSE exp_idx + 1
           /\ pc' = IF again THEN "experience_wait" ELSE "experience"
    /\ UNCHANGED <<resume_data, customized_resume, cb_resume_data, result, input0>>
    /\ UNCHANGED fn_vars

\* lines 169-187: the answer for one experience
ExperienceReturn(o) ==
    /\ pc = "experience_wait"
    /\ LET resp == CustomizeContentWithParams(o)
       IN  /\ calls' = Answered(calls, o, resp)
           /\ heap' = [heap EXCEPT ![optimized_exp].highlights = HighlightsAfter(@, resp)]
    /\ optimized_experiences' = Append(optimized_experiences, optimized_exp)
    /\ optimized_exp' = 0
    /\ exp_idx' = exp_idx + 1
    /\ pc' = "experience"
    /\ UNCHANGED <<resume_data, customized_resume, cb_resume_data, result, input0>>
    /\ UNCHANGED fn_vars

\* lines 189, 89: the loop is over; the new list is assigned to the copy
OptimizeExperienceReturn ==
    /\ pc = "experience"
    /\ heap[customized_resume].experiences # <<>>
    /\ exp_idx = Len(heap[customized_resume].experiences)
    /\ heap' = [heap EXCEPT ![customized_resume].experiences = optimized_experiences]
    /\ optimized_experiences' = <<>>
    /\ exp_idx' = 0
    /\ pc' = NextSection("experience")
    /\ result' = Returned(pc', result, customized_resume)
    /\ UNCHANGED <<resume_data, customized_resume, cb_resume_data,
                   optimized_exp, calls, input0>>
    /\ UNCHANGED fn_vars

\* lines 201-202, 92: an empty skills list is returned as it is
AdjustSkillsSkip ==
    /\ pc = "skills"
    /\ heap[customized_resume].skills = <<>>
    /\ pc' = NextSection("skills")
    /\ result' = Returned(pc', result, customized_resume)
    /\ UNCHANGED <<heap, resume_data, customized_resume, cb_resume_data, exp_idx,
                   optimized_exp, optimized_experiences, calls, input0>>
    /\ UNCHANGED fn_vars

\* lines 204-224: the skills are rendered and sent
AdjustSkillsCall ==
    /\ pc = "skills"
    /\ heap[customized_resume].skills # <<>>
    /\ calls' = Append(calls,
           Call("skills", 0, Strip(SkillsText(heap[customized_resume].skills))))
    /\ pc' = "skills_wait"
    /\ UNCHANGED <<heap, resume_data, customized_resume, cb_resume_data, exp_idx,
                   optimized_exp, optimized_experiences, result, input0>>
    /\ UNCHANGED fn_vars

\* lines 226-237, 92: the answer to the skills request
AdjustSkillsReturn(o) ==
    /\ pc = "skills_wait"
    /\ LET resp == CustomizeContentWithParams(o)
       IN  /\ calls' = Answered(calls, o, resp)
           /\ heap' = [heap EXCEPT ![customized_resume].skills = SkillsAfter(@, resp)]
    /\ pc' = NextSection("skills")
    /\ result' = Returned(pc', result, customized_resume)
    /\ UNCHANGED <<resume_data, customized_resume, cb_resume_data, exp_idx,
                   optimized_exp, optimized_experiences, input0>>
    /\ UNCHANGED fn_vars

\* lines 249-250, 95-98: an empty project list is returned as it is; the call returns
OptimizeProjectsSkip ==
    /\ pc = "projects"
    /\ heap[customized_resume].projects = <<>>
    /\ pc' = NextSection("projects")
    /\ result' = Returned(pc', result, customized_resume)
    /\ UNCHANGED <<heap, resume_data, customized_resume, cb_resume_data, exp_idx,
                   optimized_exp, optimized_experiences, calls, input0>>
    /\ UNCHANGED fn_vars

\* lines 252-276: the projects are rendered and sent
OptimizeProjectsCall ==
    /\ pc = "projects"
    /\ heap[customized_resume].projects # <<>>
    /\ LET refs == heap[customized_resume].projects
       IN  calls' = Append(calls, Call("projects", 0,
                        Strip(ProjectsText([i \in 1..Len(refs) |-> heap[refs[i]]]))))
    /\ pc' = "projects_wait"
    /\ UNCHANGED <<heap, resume_data, customized_resume, cb_resume_data, exp_idx,
                   optimized_exp, optimized_experiences, result, input0>>
    /\ UNCHANGED fn_vars

\* the heap and the project list optimize_projects leaves (lines 278-289, 95)
ProjectsAfter(h, r, resp) ==
    IF resp.success
    THEN LET p == ParseProjectsResponse(h, resp.content, h[r].projects)
         IN  IF p.refs # <<>> THEN [p.heap EXCEPT ![r].projects = p.refs] ELSE h
    ELSE h

\* lines 278-289, 95-98: the answer to the projects request; the call returns
OptimizeProjectsReturn(o) ==
    /\ pc = "projects_wait"
    /\ LET resp == CustomizeContentWithParams(o)
       IN  /\ calls' = Answered(calls, o, resp)
           /\ heap' = ProjectsAfter(heap, customized_resume, resp)
    /\ pc' = NextSection("projects")
    /\ result' = Returned(pc', result, customized_resume)
    /\ UNCHANGED <<resume_data, customized_resume, cb_resume_data, exp_idx,
                   optimized_exp, optimized_experiences, input0>>
    /\ UNCHANGED fn_vars

Init == EngineInit /\ FnOff

Next ==
    \/ CustomizeForJob
    \/ \E o \in ProbeOutcomes : IsAvailableReturn(o)
    \/ EnhanceSummaryCall
    \/ EnhanceSummarySkip
    \/ \E o \in Outcomes("summary") : EnhanceSummaryReturn(o)
    \/ OptimizeExperienceEmpty
    \/ ExperienceCall
    \/ ExperienceSkip
    \/ \E o \in Outcomes("experience") : ExperienceReturn(o)
    \/ OptimizeExperienceReturn
    \/ AdjustSkillsSkip
    \/ AdjustSkillsCall
    \/ \E o \in Outcomes("skills") : AdjustSkillsReturn(o)
    \/ OptimizeProjectsSkip
    \/ OptimizeProjectsCall
    \/ \E o \in Outcomes("projects") : OptimizeProjectsReturn(o)

Spec == Init /\ [][Next]_vars

(***************************************************************************)
(* Properties of customize_for_job, checked under Spec.                    *)
(***************************************************************************)
\* the record customize_for_job returned
Out == DeepValue(heap, result)

\* the health check found the endpoint reachable
Reachable == Len(calls) >= 1 /\ calls[1].answered /\ calls[1].resp.success

\* the content requests of a section (of one experience when index > 0)
CallsFor(section, index) ==
    {i \in DOMAIN calls : calls[i].section = section /\ calls[i].index = index}

ContentCalls == {i \in DOMAIN calls : calls[i].section # "probe"}

\* a text of whitespace only (the empty text included)
Blank(s) == \A i \in 1..Len(s) : IsSpace(s[i])

\* the sections and entries of the input that have content to send
SummarySource == input0.summary # None /\ ~Blank(input0.summary)

ExperienceSource(k) ==
    input0.experiences[k].unedited # <<>> \/ input0.experiences[k].highlights # <<>>

SkillsSource == input0.skills # <<>>

ProjectsSource == input0.projects # <<>>

\* every section (and every experience) paired with whether the input has content for it
Entries ==
    {<<"summary", 0, SummarySource>>, <<"skills", 0, SkillsSource>>,
     <<"projects", 0, ProjectsSource>>}
    \cup {<<"experience", k, ExperienceSource(k)>> : k \in 1..Len(input0.experiences)}

\* no line of the text is a highlight: each is blank, or starts with "-" but not "- "
NoHighlightLine(content) ==
    \A n \in 1..Len(Split(content, "\n")) :
        LET line == Strip(Split(content, "\n")[n])
        IN  line = <<>> \/ (StartsWith(line, T_Dash) /\ ~StartsWith(line, T_DashSpace))

\* C1: customize_for_job never modifies the record it is given: at every moment of
\* the call the argument is field-for-field what it was on entry, the record worked
\* on shares no object with it, and that record is what is returned.
C1_InputNeverModified ==
    /\ DeepValue(heap, resume_data) = input0
    /\ customized_resume # 0 =>
          Objects(heap, customized_resume) \cap Objects(heap, resume_data) = {}
    /\ pc = "done" => result = customized_resume /\ result # 0

\* a finished call with a failed request, a successful one, and a changed result
C1_Witness ==
    /\ pc = "done"
    /\ Out # input0
    /\ \E i \in ContentCalls : ~calls[i].resp.success
    /\ \E i \in ContentCalls : calls[i].resp.success

\* C2: a section whose request failed, or whose answer holds nothing of the section's
\* shape, is returned as in the input, and the later sections are still processed;
\* with every request failing the returned record equals the input.
C2_FailureKeepsOriginal ==
    pc = "done" =>
        /\ \A i \in ContentCalls :
              LET c == calls[i]
              IN  /\ (c.section = "summary" /\ ~c.resp.success)
                        => Out.summary = input0.summary
                  /\ (c.section = "experience"
                        /\ (~c.resp.success \/ NoHighlightLine(c.resp.content)))
                        => Out.experiences[c.index] = input0.experiences[c.index]
                  /\ (c.section = "skills"
                        /\ (~c.resp.success \/ ParseSkillsResponse(c.resp.content).none))
                        => Out.skills = input0.skills
                  /\ (c.section = "projects" /\ ~c.resp.success)
                        => Out.projects = input0.projects
        /\ Reachable =>
              \A e \in Entries : e[3] => \E i \in CallsFor(e[1], e[2]) : calls[i].answered
        /\ (\A i \in ContentCalls : ~calls[i].resp.success) => Out = input0

\* an experience request failed, another came back without a highlight line, and the
\* skills request after them succeeded and changed the skills
C2_Witness ==
    /\ pc = "done"
    /\ \E i, j, k \in ContentCalls :
          /\ i < j /\ j < k
          /\ calls[i].section = "experience" /\ ~calls[i].resp.success
          /\ calls[j].section = "experience" /\ calls[j].resp.success
          /\ NoHighlightLine(calls[j].resp.content)
          /\ calls[k].section = "skills" /\ calls[k].resp.success
    /\ Out.skills # input0.skills
    /\ Out.experiences = input0.experiences

\* C3: no request is sent for a section (or experience) without content; the health
\* check is the first request and the only one of its kind; when it reports the
\* endpoint unreachable no content request is sent and the input is returned equal.
C3_NoCallWithoutContent ==
    /\ pc # "start" => Len(calls) >= 1
    /\ \A i \in DOMAIN calls : (i = 1) <=> (calls[i].section = "probe")
    /\ \A i \in ContentCalls :
          \E e \in Entries : e[1] = calls[i].section /\ e[2] = calls[i].index /\ e[3]
    /\ (Len(calls) >= 1 /\ calls[1].answered /\ ~calls[1].resp.success) =>
          /\ ContentCalls = {}
          /\ pc = "done"
          /\ Out = input0

\* a reachable endpoint and a resume with a blank summary, two experiences without
\* highlights, no skills and no projects: the call ends having sent the probe only
C3_Witness ==
    /\ pc = "done"
    /\ Reachable
    /\ input0.summary = <<" ">>
    /\ Len(input0.experiences) = 2
    /\ ContentCalls = {}

Rank(section) ==
    IF section = "probe" THEN 0
    ELSE IF section = "summary" THEN 1
    ELSE IF section = "experience" THEN 2
    ELSE IF section = "skills" THEN 3
    ELSE 4

\* C5: requests are sent one after another in the order probe, summary, experience,
\* skills, projects: when a request is sent every earlier one has been answered and
\* belongs to the same or an earlier section (experiences in list order).
C5_SequentialOrder ==
    \A i, j \in DOMAIN calls :
        i < j =>
            /\ calls[i].answered
            /\ Rank(calls[i].section) <= Rank(calls[j].section)
            /\ calls[i].section = calls[j].section => calls[i].index < calls[j].index

\* a finished call that sent the probe and a request for every section, two of them
\* for experiences
C5_Witness ==
    /\ pc = "done"
    /\ Len(calls) = 6
    /\ \A e \in Entries : CallsFor(e[1], e[2]) # {}

\* C9 as claimed: after a successful summary request the returned summary is the
\* response text without its leading and trailing whitespace, after a failed one the
\* input's.
C9_SummaryIsTrimmedResponse ==
    pc = "done" =>
        \A i \in CallsFor("summary", 0) :
            IF calls[i].resp.success
            THEN Out.summary = Strip(calls[i].outcome.raw)
            ELSE Out.summary = input0.summary

\* C9 as amended: after a successful summary request whose response text is not blank
\* the returned summary is that text without its leading and trailing whitespace and
\* nothing else changed; after a failed request, or a blank response text, it is the
\* input's.
C9_SummaryIsTrimmedNonBlankResponse ==
    pc = "done" =>
        \A i \in CallsFor("summary", 0) :
            IF calls[i].resp.success /\ ~Blank(calls[i].outcome.raw)
            THEN Out.summary = Strip(calls[i].outcome.raw)
            ELSE Out.summary = input0.summary

\* a successful summary request answered " t": the returned summary is "t"
C9_Witness ==
    /\ pc = "done"
    /\ \E i \in CallsFor("summary", 0) :
          calls[i].resp.success /\ calls[i].outcome.raw = <<" ", "t">>
    /\ Out.summary = <<"t">>

(***************************************************************************)
(* Function-level scenarios: a function of the engine applied to inputs    *)
(* drawn from a bounded set.  The engine's own variables are idle.         *)
(***************************************************************************)
EngineOff ==
    /\ heap = <<>>
    /\ resume_data = 0
    /\ customized_resume = 0
    /\ cb_resume_data = 0
    /\ pc = "off"
    /\ exp_idx = 0
    /\ optimized_exp = 0
    /\ optimized_experiences = <<>>
    /\ calls = <<>>
    /\ result = 0
    /\ input0 = <<>>

\* "- A\n- B\nC"
Example_ABC == <<"-", " ", "A", "\n", "-", " ", "B", "\n", "C">>

\* "- Did X better"
Example_DidXBetter ==
    <<"-", " ", "D", "i", "d", " ", "X", " ", "b", "e", "t", "t", "e", "r">>

\* the responses of the highlight scenario: every text over the characters that
\* matter to the parser, and the two examples
HighlightContents ==
    SeqsUpTo({"-", " ", "a", "\n"}, MaxContentLen) \cup {Example_ABC, Example_DidXBetter}

\* an experience with highlights ["Did X"] and a successful answer to parse
HighlightsInit ==
    /\ EngineOff
    /\ fpc = "input"
    /\ \E content \in HighlightContents :
          fin = [current |-> <<<<"D", "i", "d", " ", "X">>>>, content |-> content]
    /\ fout = <<>>

\* optimize_experience lines 169-183 on a successful response
OptimizeExperienceParse ==
    /\ fpc = "input"
    /\ fout' = HighlightsAfter(fin.current, AIResponse(TRUE, fin.content, "none", 0))
    /\ fpc' = "done"
    /\ UNCHANGED fin
    /\ UNCHANGED engine_vars

HighlightsNext == OptimizeExperienceParse

SpecHighlights == HighlightsInit /\ [][HighlightsNext]_vars

\* the lines of the response
ContentLines == Split(fin.content, "\n")

\* the n-th smallest element of a set of numbers
Nth(S, n) == CHOOSE x \in S : Cardinality({y \in S : y < x}) = n - 1

\* the list of f[n] for the n in S, in increasing order of n
Pick(S, f) == [m \in 1..Cardinality(S) |-> f[Nth(S, m)]]

\* C6 as claimed: the highlights become, in order, every non-blank line that starts
\* with "- " (prefix removed) or does not start with "-" (kept verbatim); with no such
\* line the original highlights stay.
C6_HighlightsAreQualifyingLines ==
    fpc = "done" =>
        LET keep == {n \in DOMAIN ContentLines :
                        /\ ~Blank(ContentLines[n])
                        /\ \/ StartsWith(ContentLines[n], T_DashSpace)
                           \/ ~StartsWith(ContentLines[n], T_Dash)}
            value == [n \in DOMAIN ContentLines |->
                        IF StartsWith(ContentLines[n], T_DashSpace)
                        THEN Drop(ContentLines[n], 2) ELSE ContentLines[n]]
        IN  fout = IF keep # {} THEN Pick(keep, value) ELSE fin.current

\* C6 as amended: every line is first stripped of its leading and trailing whitespace;
\* the highlights become, in order, every stripped line that starts with "- " (that
\* prefix removed) or that is non-empty and does not start with "-" (the stripped
\* line itself); with no such line the original highlights stay.
C6_HighlightsAreStrippedQualifyingLines ==
    fpc = "done" =>
        LET stripped == [n \in DOMAIN ContentLines |-> Strip(ContentLines[n])]
            keep == {n \in DOMAIN ContentLines :
                        /\ stripped[n] # <<>>
                        /\ \/ StartsWith(stripped[n], T_DashSpace)
                           \/ ~StartsWith(stripped[n], T_Dash)}
            value == [n \in DOMAIN ContentLines |->
                        IF StartsWith(stripped[n], T_DashSpace)
                        THEN Drop(stripped[n], 2) ELSE stripped[n]]
        IN  fout = IF keep # {} THEN Pick(keep, value) ELSE fin.current

\* "- A\n- B\nC" has been parsed into ["A", "B", "C"]
C6_Witness ==
    /\ fpc = "done"
    /\ fin.content = Example_ABC
    /\ fout = <<<<"A">>, <<"B">>, <<"C">>>>

(***************************************************************************)
(* The skills round trip: adjust_skills' rendering, then                   *)
(* _parse_skills_response.                                                 *)
(***************************************************************************)
\* labels: two plain ones, one with a leading blank, one starting with "-", an empty one
SkillLabels == {<<"a">>, <<"b">>, <<" ", "a">>, <<"-", "a">>, <<>>}

\* skill lists: empty, one or two plain skills in both orders, a skill with a
\* trailing blank, an empty skill
SkillLists ==
    {<<>>, <<<<"x">>>>, <<<<"x">>, <<"y">>>>, <<<<"y">>, <<"x">>>>,
     <<<<"x", " ">>>>, <<<<>>>>}

SkillCategories == {SkillCategory(l, k) : l \in SkillLabels, k \in SkillLists}

\* adjust_skills renders non-empty lists only (lines 201-202)
SkillsInit ==
    /\ EngineOff
    /\ fpc = "input"
    /\ \E skills \in SeqsUpTo(SkillCategories, MaxCats) \ {<<>>} : fin = [skills |-> skills]
    /\ fout = <<>>

\* adjust_skills lines 206-216: the text handed to the transport
RenderSkills ==
    /\ fpc = "input"
    /\ fout' = [text |-> Strip(SkillsText(fin.skills)), parsed |-> NoList]
    /\ fpc' = "rendered"
    /\ UNCHANGED fin
    /\ UNCHANGED engine_vars

\* _parse_skills_response on that text
ParseRenderedSkills ==
    /\ fpc = "rendered"
    /\ fout' = [fout EXCEPT !.parsed = ParseSkillsResponse(fout.text)]
    /\ fpc' = "done"
    /\ UNCHANGED fin
    /\ UNCHANGED engine_vars

SkillsNext == RenderSkills \/ ParseRenderedSkills

SpecSkills == SkillsInit /\ [][SkillsNext]_vars

\* C7 as claimed: for any list of skill categories, rendering it and parsing the text
\* back gives the same categories in the same order with the same skills in the same
\* order.
C7_SkillsRoundTrip ==
    fpc = "done" => fout.parsed = SomeList(fin.skills)

\* a text without leading or trailing whitespace and without a line end
Trimmed(s) == s # <<>> /\ ~IsSpace(s[1]) /\ ~IsSpace(s[Len(s)]) /\ ~Contains(s, "\n")

\* a list the round trip is claimed for after amendment
WellFormedSkills(skills) ==
    /\ skills # <<>>
    /\ \A c \in 1..Len(skills) :
          /\ Trimmed(skills[c].category)
          /\ skills[c].category[1] # "-"
          /\ skills[c].skills # <<>>
          /\ \A k \in 1..Len(skills[c].skills) : Trimmed(skills[c].skills[k])

\* C7 as amended: the round trip holds for every non-empty list of categories in which
\* each label is non-empty, has no leading or trailing whitespace, holds no line end
\* and does not start with "-", and each category has at least one skill, each skill
\* non-empty, without leading or trailing whitespace and without a line end.
C7_WellFormedSkillsRoundTrip ==
    (fpc = "done" /\ WellFormedSkills(fin.skills)) => fout.parsed = SomeList(fin.skills)

\* two categories with two skills each, in opposite orders, came back as they were
C7_Witness ==
    /\ fpc = "done"
    /\ fin.skills = <<SkillCategory(<<"b">>, <<<<"x">>, <<"y">>>>),
                      SkillCategory(<<"a">>, <<<<"y">>, <<"x">>>>)>>
    /\ fout.parsed = SomeList(fin.skills)

(***************************************************************************)
(* _parse_projects_response on a list of projects and a response text.     *)
(***************************************************************************)
ScenarioProjects ==
    {ProjectData(<<"n">>, <<"d">>, None, None, <<>>, <<>>),
     ProjectData(<<"m">>, <<"f">>, <<"s">>, <<"w">>, <<<<"k">>>>, <<<<"h">>>>)}

\* the lines a response is made of: "Project N:" for N inside and outside the list,
\* for 0 and for a word, and "Description:" with and without a text
ResponseLines ==
    {T_Project \o <<"1", ":">>, T_Project \o <<"2", ":">>, T_Project \o <<"3", ":">>,
     T_Project \o <<"0", ":">>, T_Project \o <<"x", ":">>,
     T_Description \o <<" ", "e">>, T_Description}

ProjectsInit ==
    /\ EngineOff
    /\ fpc = "input"
    /\ \E projects \in SeqsUpTo(ScenarioProjects, MaxProj),
          lines \in SeqsUpTo(ResponseLines, MaxLines) :
            fin = [projects |-> projects, content |-> Join(lines, T_NL)]
    /\ fout = <<>>

\* _parse_projects_response(response_content, original_projects); the originals are
\* the objects 1..n of a heap of their own
ParseProjects ==
    /\ fpc = "input"
    /\ fout' = ParseProjectsResponse(fin.projects, fin.content,
                                     [i \in 1..Len(fin.projects) |-> i])
    /\ fpc' = "done"
    /\ UNCHANGED fin
    /\ UNCHANGED engine_vars

ProjectsNext == ParseProjects

SpecProjects == ProjectsInit /\ [][ProjectsNext]_vars

\* C8: for every response the parser returns as many projects as it was given, in
\* the same order, each equal to the original in name, subtitle, url, technologies and
\* highlights; a description differs from the original's only by being the text of a
\* "Description:" line of the response.  The originals themselves are not written.
C8_OnlyDescriptionsChange ==
    fpc = "done" =>
        /\ Len(fout.refs) = Len(fin.projects)
        /\ SubSeq(fout.heap, 1, Len(fin.projects)) = fin.projects
        /\ \A i \in 1..Len(fin.projects) :
              LET new == fout.heap[fout.refs[i]]
                  old == fin.projects[i]
              IN  /\ fout.refs[i] > Len(fin.projects)
                  /\ new.name = old.name
                  /\ new.subtitle = old.subtitle
                  /\ new.url = old.url
                  /\ new.technologies = old.technologies
                  /\ new.highlights = old.highlights
                  /\ new.description # old.description =>
                        \E n \in 1..Len(Split(fin.content, "\n")) :
                            LET line == Strip(Split(fin.content, "\n")[n])
                            IN  /\ StartsWith(line, T_Description)
                                /\ new.description = Strip(Drop(line, Len(T_Description)))

\* two projects and a response that rewrites the second one only
C8_Witness ==
    /\ fpc = "done"
    /\ Len(fin.projects) = 2
    /\ fin.projects[1] # fin.projects[2]
    /\ fout.heap[fout.refs[1]] = fin.projects[1]
    /\ fout.heap[fout.refs[2]] = [fin.projects[2] EXCEPT !.description = <<"e">>]

(***************************************************************************)
(* DynamicTemplateEngine (core/template_manager.py): conditional pruning.  *)
(***************************************************************************)
\* a Python value of the template context: None, a list of values, a text, a bool,
\* an int, or a dict (its entries in insertion order, each a key with its value)
PyValue(type, items, text, flag, num) ==
    [type |-> type, items |-> items, text |-> text, flag |-> flag, num |-> num]

PyNone == PyValue("NoneType", <<>>, <<>>, FALSE, 0)

PyList(items) == PyValue("list", items, <<>>, FALSE, 0)

PyText(text) == PyValue("str", <<>>, text, FALSE, 0)

PyBool(flag) == PyValue("bool", <<>>, <<>>, flag, 0)

PyInt(num) == PyValue("int", <<>>, <<>>, FALSE, num)

PyEntry(key, value) == PyValue("entry", <<value>>, key, FALSE, 0)

PyDict(entries) == PyValue("dict", entries, <<>>, FALSE, 0)

\* str(value) and repr(value): the text itself (quoted by repr; the model's texts hold
\* no quote, backslash or control character), "True"/"False", the decimal digits,
\* "None", and for a list or a dict the bracketed, comma-separated repr of its members
RECURSIVE PyStr(_), PyRepr(_)
PyStr(value) ==
    IF value.type = "str" THEN value.text
    ELSE IF value.type = "bool"
         THEN (IF value.flag THEN <<"T", "r", "u", "e">> ELSE <<"F", "a", "l", "s", "e">>)
    ELSE IF value.type = "int" THEN IntText(value.num)
    ELSE IF value.type = "list"
         THEN <<"[">> \o Join([i \in 1..Len(value.items) |-> PyRepr(value.items[i])],
                              T_CommaSpace)
              \o <<"]">>
    ELSE IF value.type = "dict"
         THEN <<"{">> \o Join([i \in 1..Len(value.items) |->
                                  <<"'">> \o value.items[i].text \o <<"'", ":", " ">>
                                  \o PyRepr(value.items[i].items[1])], T_CommaSpace)
              \o <<"}">>
    ELSE <<"N", "o", "n", "e">>

PyRepr(value) ==
    IF value.type = "str" THEN <<"'">> \o value.text \o <<"'">> ELSE PyStr(value)

\* the characters \w matches, among those of the model's texts
WordChars ==
    {"a", "b", "c", "d", "e", "f", "g", "h", "i", "j", "k", "l", "m", "n", "o", "p", "q",
     "r", "s", "t", "u", "v", "w", "x", "y", "z", "A", "B", "C", "D", "E", "F", "G", "H",
     "I", "J", "K", "L", "M", "N", "O", "P", "Q", "R", "S", "T", "U", "V", "W", "X", "Y",
     "Z", "0", "1", "2", "3", "4", "5", "6", "7", "8", "9", "_"}

T_IfOpen == <<"{", "%", " ", "i", "f", " ">>
T_TagClose == <<" ", "%", "}">>
T_EndIf == <<"{", "%", " ", "e", "n", "d", "i", "f", " ", "%", "}">>

\* whether p occurs in s at position i
OccursAt(s, p, i) == i >= 1 /\ i + Len(p) - 1 <= Len(s) /\ SubSeq(s, i, i + Len(p) - 1) = p

\* the first position >= from at which p occurs in s, 0 when there is none
Find(s, p, from) ==
    IF \E i \in from..Len(s) : OccursAt(s, p, i)
    THEN CHOOSE i \in from..Len(s) :
            OccursAt(s, p, i) /\ \A j \in from..(i - 1) : ~OccursAt(s, p, j)
    ELSE 0

\* the end of the longest run of \w characters of s that starts at i (i - 1 when none)
WordEnd(s, i) ==
    IF i <= Len(s) /\ s[i] \in WordChars
    THEN CHOOSE j \in i..Len(s) :
            /\ \A k \in i..j : s[k] \in WordChars
            /\ (j = Len(s) \/ s[j + 1] \notin WordChars)
    ELSE i - 1

\* conditional_pattern, r'\{% if (\w+) %\}(.*?)\{% endif %\}' with DOTALL, tried at
\* position i of s: the name, the lazily matched body and the last position matched
MatchConditional(s, i) ==
    LET j == WordEnd(s, i + Len(T_IfOpen))
        b == j + Len(T_TagClose) + 1
        e == Find(s, T_EndIf, b)
    IN  IF OccursAt(s, T_IfOpen, i) /\ j >= i + Len(T_IfOpen)
           /\ OccursAt(s, T_TagClose, j + 1) /\ e # 0
        THEN [ok |-> TRUE, name |-> SubSeq(s, i + Len(T_IfOpen), j),
              body |-> SubSeq(s, b, e - 1), last |-> e + Len(T_EndIf) - 1]
        ELSE [ok |-> FALSE, name |-> <<>>, body |-> <<>>, last |-> 0]

\* the test of replace_conditional (lines 199-205)
ConditionHolds(data_dict, condition_var) ==
    /\ condition_var \in DOMAIN data_dict
    /\ LET value == data_dict[condition_var]
       IN  \/ (value.type = "list" /\ value.items # <<>>)
           \/ (value.type = "str" /\ Strip(value.text) # <<>>)
           \/ (value.type = "bool" /\ value.flag)
           \/ (value.type # "NoneType" /\ Strip(PyStr(value)) # <<>>)

\* replace_conditional: what a matched block is replaced by
ReplaceConditional(m, data_dict) ==
    IF ConditionHolds(data_dict, m.name) THEN m.body ELSE <<>>

\* conditional_pattern.sub(replace_conditional, template_content), from position i on:
\* the matches are found left to right and do not overlap
RECURSIVE SubConditionals(_, _, _)
SubConditionals(s, i, data_dict) ==
    LET hits == {j \in i..Len(s) : MatchConditional(s, j).ok}
    IN  IF hits = {} THEN SubSeq(s, i, Len(s))
        ELSE LET j == CHOOSE h \in hits : \A k \in hits : h <= k
                 m == MatchConditional(s, j)
             IN  SubSeq(s, i, j - 1) \o ReplaceConditional(m, data_dict)
                 \o SubConditionals(s, m.last + 1, data_dict)

\* DynamicTemplateEngine._process_conditionals
ProcessConditionals(template_content, data_dict) ==
    SubConditionals(template_content, 1, data_dict)

\* the values a context can give the name "x"
ContextValues ==
    {PyNone, PyList(<<>>), PyList(<<PyText(<<"a">>)>>), PyText(<<>>), PyText(<<" ">>), PyText(<<"a">>),
     PyBool(TRUE), PyBool(FALSE), PyInt(0), PyInt(7)}

\* the contexts: empty, or giving "x" one value
Contexts == {<<>>} \cup {[n \in {<<"x">>} |-> v] : v \in ContextValues}

\* a conditional block and the text before it: the name tested is "x" or a name the
\* context never holds; the body spans one or two lines
Blocks ==
    [pre : {<<>>, <<"A">>}, name : {<<"x">>, <<"y", "_", "1">>},
     body : {<<"B">>, <<"B", "\n", "C">>}]

BlockText(b) == b.pre \o T_IfOpen \o b.name \o T_TagClose \o b.body \o T_EndIf

TemplateInit ==
    /\ EngineOff
    /\ fpc = "input"
    /\ \E blocks \in SeqsUpTo(Blocks, MaxBlocks), tail \in {<<>>, <<"Z">>},
          data_dict \in Contexts :
            fin = [blocks |-> blocks, tail |-> tail, data_dict |-> data_dict,
                   template_content |->
                       Concat([i \in 1..Len(blocks) |-> BlockText(blocks[i])]) \o tail]
    /\ fout = <<>>

\* render_template line 45: the conditional stage
ConditionalStage ==
    /\ fpc = "input"
    /\ fout' = ProcessConditionals(fin.template_content, fin.data_dict)
    /\ fpc' = "done"
    /\ UNCHANGED fin
    /\ UNCHANGED engine_vars

TemplateNext == ConditionalStage

SpecTemplate == TemplateInit /\ [][TemplateNext]_vars

\* the truth table of the claim: a non-empty sequence, a non-blank string, boolean
\* true, or any other non-null value whose string form is non-blank
ClaimedTruthy(data_dict, name) ==
    /\ name \in DOMAIN data_dict
    /\ LET value == data_dict[name]
       IN  \/ (value.type = "list" /\ value.items # <<>>)
           \/ (value.type = "str" /\ ~Blank(value.text))
           \/ (value.type = "bool" /\ value.flag)
           \/ (value.type \notin {"NoneType", "list", "str", "bool"} /\ ~Blank(PyStr(value)))

\* C10: an "{% if name %}...{% endif %}" block is deleted when name is absent or its
\* value is null, an empty sequence, an empty or blank string or false, and replaced
\* by its inner content when the value is a non-empty sequence, a non-blank string,
\* true, or another non-null value whose string form is non-blank (0 included).
C10_ConditionalTruthTable ==
    fpc = "done" =>
        fout = Concat([i \in 1..Len(fin.blocks) |->
                          fin.blocks[i].pre
                          \o (IF ClaimedTruthy(fin.data_dict, fin.blocks[i].name)
                              THEN fin.blocks[i].body ELSE <<>>)])
               \o fin.tail

(***************************************************************************)
(* DynamicTemplateEngine: loop expansion and variable substitution.        *)
(***************************************************************************)
T_ForOpen == <<"{", "%", " ", "f", "o", "r", " ">>
T_In == <<" ", "i", "n", " ">>
T_EndFor == <<"{", "%", " ", "e", "n", "d", "f", "o", "r", " ", "%", "}">>
T_Open2 == <<"{", "{">>
T_Close2 == <<"}", "}">>
T_Open3 == <<"{", "{", "{">>
T_Close3 == <<"}", "}", "}">>
T_Dot == <<".">>

\* the character SUPERSCRIPT TWO: str.isdigit accepts it, int() does not
Superscript2 == "U+00B2"

\* what stands in a text for a ValueError raised while the text was being produced
ValueErrorMark == "ValueError"

\* s.replace(old, new) for a non-empty old: left to right, without overlap
RECURSIVE Replace(_, _, _)
Replace(s, old, new) ==
    LET j == Find(s, old, 1)
    IN  IF j = 0 THEN s
        ELSE SubSeq(s, 1, j - 1) \o new \o Replace(Drop(s, j + Len(old) - 1), old, new)

\* loop_pattern, r'\{% for (\w+) in (\w+) %\}(.*?)\{% endfor %\}' with DOTALL, tried at
\* position i of s
MatchLoop(s, i) ==
    LET v == i + Len(T_ForOpen)
        j == WordEnd(s, v)
        c == j + Len(T_In) + 1
        k == WordEnd(s, c)
        b == k + Len(T_TagClose) + 1
        e == Find(s, T_EndFor, b)
    IN  IF OccursAt(s, T_ForOpen, i) /\ j >= v /\ OccursAt(s, T_In, j + 1) /\ k >= c
           /\ OccursAt(s, T_TagClose, k + 1) /\ e # 0
        THEN [ok |-> TRUE, item_var |-> SubSeq(s, v, j), collection_var |-> SubSeq(s, c, k),
              loop_body |-> SubSeq(s, b, e - 1), last |-> e + Len(T_EndFor) - 1]
        ELSE [ok |-> FALSE, item_var |-> <<>>, collection_var |-> <<>>,
              loop_body |-> <<>>, last |-> 0]

\* the position of the first "}" of s at or after from, 0 when there is none
FirstClose(s, from) == Find(s, <<"}">>, from)

\* nested_pattern, rf'\{{{{{item_var}\.([^}}]+)\}}}}', tried at position i of s. The
\* format string doubles its braces, so the pattern is \{{item_var\.([^}]+)\}} : two
\* opening braces, the loop variable, a dot, the path, two closing braces
MatchNested(s, item_var, i) ==
    LET open == T_Open2 \o item_var \o T_Dot
        p == i + Len(open)
        j == FirstClose(s, p)
    IN  IF OccursAt(s, open, i) /\ j > p /\ OccursAt(s, T_Close2, j)
        THEN [ok |-> TRUE, key_path |-> SubSeq(s, p, j - 1), last |-> j + 1]
        ELSE [ok |-> FALSE, key_path |-> <<>>, last |-> 0]

\* key.isdigit()
KeyIsDigit(key) ==
    key # <<>> /\ \A i \in 1..Len(key) : IsDigit(key[i]) \/ key[i] = Superscript2

\* the names among the model's path segments that are attributes of a dict, a list, a
\* str, an int, a bool or None: none (hasattr is false for every segment of the model)
PyAttributes(type) == {}

\* whether a dict holds the key, and the value it holds for it
DictHas(d, key) == \E i \in 1..Len(d.items) : d.items[i].text = key

DictGet(d, key) == d.items[CHOOSE i \in 1..Len(d.items) : d.items[i].text = key].items[1]

\* the loop of replace_nested over the path segments: the value reached ("ok"), the
\* bracketed placeholder ("missing": no branch applies, KeyError, IndexError), or the
\* ValueError of int() that no except clause of replace_nested catches ("raise")
RECURSIVE ResolvePath(_, _)
ResolvePath(value, keys) ==
    IF keys = <<>> THEN [status |-> "ok", value |-> value]
    ELSE LET key == Head(keys)
         IN  IF value.type = "dict"
             THEN IF DictHas(value, key) THEN ResolvePath(DictGet(value, key), Tail(keys))
                  ELSE [status |-> "missing", value |-> PyNone]
             ELSE IF value.type = "list" /\ KeyIsDigit(key)
             THEN IF ~IsIntLiteral(key) THEN [status |-> "raise", value |-> PyNone]
                  ELSE IF IntValue(key) < Len(value.items)
                  THEN ResolvePath(value.items[IntValue(key) + 1], Tail(keys))
                  ELSE [status |-> "missing", value |-> PyNone]
             ELSE IF key \in PyAttributes(value.type)
             THEN [status |-> "ok", value |-> PyNone]
             ELSE [status |-> "missing", value |-> PyNone]

\* replace_nested: what a matched nested placeholder is replaced by
ReplaceNested(m, item_var, item_data) ==
    LET r == ResolvePath(item_data, Split(m.key_path, "."))
    IN  IF r.status = "raise" THEN <<ValueErrorMark>>
        ELSE IF r.status = "missing" THEN <<"[">> \o item_var \o T_Dot \o m.key_path \o <<"]">>
        ELSE IF r.value.type = "NoneType" THEN <<>>
        ELSE PyStr(r.value)

\* nested_pattern.sub(replace_nested, content), from position i on
RECURSIVE SubNested(_, _, _, _)
SubNested(s, i, item_var, item_data) ==
    LET hits == {j \in i..Len(s) : MatchNested(s, item_var, j).ok}
    IN  IF hits = {} THEN SubSeq(s, i, Len(s))
        ELSE LET j == CHOOSE h \in hits : \A k \in hits : h <= k
                 m == MatchNested(s, item_var, j)
             IN  SubSeq(s, i, j - 1) \o ReplaceNested(m, item_var, item_data)
                 \o SubNested(s, m.last + 1, item_var, item_data)

\* DynamicTemplateEngine._replace_nested_variables
ReplaceNestedVariables(content, item_var, item_data) == SubNested(content, 1, item_var, item_data)

\* the body of the loop of replace_loop for one item (lines 131-138): the placeholder
\* built at line 137 by a format string with doubled braces is "{{" item_var "}}"
ItemBody(loop_body, item_var, item) ==
    IF item.type = "dict" THEN ReplaceNestedVariables(loop_body, item_var, item)
    ELSE Replace(loop_body, T_Open2 \o item_var \o T_Close2, PyStr(item))

\* replace_loop: what a matched loop is replaced by
ReplaceLoop(m, data_dict) ==
    IF m.collection_var \notin DOMAIN data_dict THEN <<>>
    ELSE LET collection == data_dict[m.collection_var]
         IN  IF collection.type # "list" \/ collection.items = <<>> THEN <<>>
             ELSE Join([n \in 1..Len(collection.items) |->
                           ItemBody(m.loop_body, m.item_var, collection.items[n])], T_NL)

\* loop_pattern.sub(replace_loop, template_content), from position i on
RECURSIVE SubLoops(_, _, _)
SubLoops(s, i, data_dict) ==
    LET hits == {j \in i..Len(s) : MatchLoop(s, j).ok}
    IN  IF hits = {} THEN SubSeq(s, i, Len(s))
        ELSE LET j == CHOOSE h \in hits : \A k \in hits : h <= k
                 m == MatchLoop(s, j)
             IN  SubSeq(s, i, j - 1) \o ReplaceLoop(m, data_dict)
                 \o SubLoops(s, m.last + 1, data_dict)

\* DynamicTemplateEngine._process_loops
ProcessLoops(template_content, data_dict) == SubLoops(template_content, 1, data_dict)

\* variable_pattern, r'\{\{\{([^}]+)\}\}\}', tried at position i of s
MatchVariable(s, i) ==
    LET p == i + Len(T_Open3)
        j == FirstClose(s, p)
    IN  IF OccursAt(s, T_Open3, i) /\ j > p /\ OccursAt(s, T_Close3, j)
        THEN [ok |-> TRUE, var_name |-> Strip(SubSeq(s, p, j - 1)), last |-> j + 2]
        ELSE [ok |-> FALSE, var_name |-> <<>>, last |-> 0]

\* a replace_variable that leaves a placeholder with an unknown name in place
ReplaceVariable_KeepMissing(m, data_dict) ==
    IF m.var_name \in DOMAIN data_dict
    THEN (IF data_dict[m.var_name].type = "NoneType" THEN <<>>
          ELSE PyStr(data_dict[m.var_name]))
    ELSE T_Open3 \o m.var_name \o T_Close3

\* replace_variable: what a matched placeholder is replaced by
ReplaceVariable(m, data_dict) ==
    IF m.var_name \in DOMAIN data_dict
    THEN (IF data_dict[m.var_name].type = "NoneType" THEN <<>>
          ELSE PyStr(data_dict[m.var_name]))
    ELSE <<"[">> \o m.var_name \o <<"]">>

\* variable_pattern.sub(replace_variable, template_content), from position i on
RECURSIVE SubVariables(_, _, _)
SubVariables(s, i, data_dict) ==
    LET hits == {j \in i..Len(s) : MatchVariable(s, j).ok}
    IN  IF hits = {} THEN SubSeq(s, i, Len(s))
        ELSE LET j == CHOOSE h \in hits : \A k \in hits : h <= k
                 m == MatchVariable(s, j)
             IN  SubSeq(s, i, j - 1) \o ReplaceVariable(m, data_dict)
                 \o SubVariables(s, m.last + 1, data_dict)

\* DynamicTemplateEngine._process_variables
ProcessVariables(template_content, data_dict) == SubVariables(template_content, 1, data_dict)

(***************************************************************************)
(* The three stages of render_template on templates made of a few          *)
(* constructs, against an empty context and a context of every value kind. *)
(***************************************************************************)
\* the context that maps each name of a list of (name, value) pairs to its value, the
\* last one when a name occurs more than once (dict.update)
ContextOf(pairs) ==
    [n \in {pairs[i][1] : i \in 1..Len(pairs)} |->
        pairs[CHOOSE i \in 1..Len(pairs) :
                 pairs[i][1] = n /\ \A j \in (i + 1)..Len(pairs) : pairs[j][1] # n][2]]

\* xs: scalars; ds: one structured element {a: {b: 'v'}, l: ['p', 'q'], n: None};
\* e: an empty list; s: a text; n: None; k: an int
StageContext ==
    ContextOf(<< <<<<"x", "s">>, PyList(<<PyText(<<"a">>), PyInt(7)>>)>>,
                 <<<<"d", "s">>,
                   PyList(<<PyDict(<<PyEntry(<<"a">>, PyDict(<<PyEntry(<<"b">>, PyText(<<"v">>))>>)),
                                     PyEntry(<<"l">>, PyList(<<PyText(<<"p">>), PyText(<<"q">>)>>)),
                                     PyEntry(<<"n">>, PyNone)>>)>>)>>,
                 <<<<"e">>, PyList(<<>>)>>,
                 <<<<"s">>, PyText(<<"t">>)>>,
                 <<<<"n">>, PyNone>>,
                 <<<<"k">>, PyInt(7)>> >>)

StageContexts == {<<>>, StageContext}

\* a construct of a template: a literal text, a {{{name}}} placeholder, a conditional
\* block, or a loop whose body is a literal followed by no placeholder ("none"), the
\* bare loop variable ("bare") or a dotted path from it ("path")
Piece(kind, name, coll, body, hole, path) ==
    [kind |-> kind, name |-> name, coll |-> coll, body |-> body, hole |-> hole, path |-> path]

StagePieces ==
    {Piece("text", <<>>, <<>>, <<"A">>, "none", <<>>),
     Piece("var", <<"z", "z">>, <<>>, <<>>, "none", <<>>),
     Piece("var", <<" ", "z", "z", " ">>, <<>>, <<>>, "none", <<>>),
     Piece("var", <<"s">>, <<>>, <<>>, "none", <<>>),
     Piece("var", <<"n">>, <<>>, <<>>, "none", <<>>),
     Piece("if", <<>>, <<"s">>, <<"C">>, "none", <<>>),
     Piece("loop", <<"i">>, <<"z", "z">>, <<"B">>, "none", <<>>),
     Piece("loop", <<"i">>, <<"s">>, <<"B">>, "none", <<>>),
     Piece("loop", <<"i">>, <<"e">>, <<"B">>, "bare", <<>>),
     Piece("loop", <<"i">>, <<"x", "s">>, <<"B">>, "bare", <<>>),
     Piece("loop", <<"i">>, <<"x", "s">>, <<>>, "path", <<"x">>),
     Piece("loop", <<"i">>, <<"d", "s">>, <<>>, "path", <<"a", ".", "b">>),
     Piece("loop", <<"i">>, <<"d", "s">>, <<"B">>, "path", <<"a", ".", "z">>),
     Piece("loop", <<"i">>, <<"d", "s">>, <<>>, "path", <<"l", ".", "1">>),
     Piece("loop", <<"i">>, <<"d", "s">>, <<>>, "path", <<"l", ".", Superscript2>>),
     Piece("loop", <<"i">>, <<"d", "s">>, <<>>, "path", <<"n">>)}

\* the placeholder of a loop body
HoleText(p) ==
    IF p.hole = "bare" THEN T_Open3 \o p.name \o T_Close3
    ELSE IF p.hole = "path" THEN T_Open3 \o p.name \o T_Dot \o p.path \o T_Close3
    ELSE <<>>

\* the template text of a construct
PieceText(p) ==
    IF p.kind = "text" THEN p.body
    ELSE IF p.kind = "var" THEN T_Open3 \o p.name \o T_Close3
    ELSE IF p.kind = "if" THEN T_IfOpen \o p.coll \o T_TagClose \o p.body \o T_EndIf
    ELSE T_ForOpen \o p.name \o T_In \o p.coll \o T_TagClose \o p.body \o HoleText(p)
         \o T_EndFor

StagesInit ==
    /\ EngineOff
    /\ fpc = "input"
    /\ \E pieces \in SeqsUpTo(StagePieces, MaxPieces), data_dict \in StageContexts :
          fin = [pieces |-> pieces, data_dict |-> data_dict,
                 template_content |-> Concat([i \in 1..Len(pieces) |-> PieceText(pieces[i])])]
    /\ fout = [text |-> <<>>, raised |-> FALSE]

\* render_template line 44; an exception of the stage leaves render_template as
\* TemplateValidationError (lines 50-51)
RenderLoops ==
    /\ fpc = "input"
    /\ LET rendered == ProcessLoops(fin.template_content, fin.data_dict)
       IN  IF Contains(rendered, ValueErrorMark)
           THEN fpc' = "raised" /\ fout' = [text |-> <<>>, raised |-> TRUE]
           ELSE fpc' = "loops" /\ fout' = [text |-> rendered, raised |-> FALSE]
    /\ UNCHANGED fin
    /\ UNCHANGED engine_vars

\* render_template line 45
RenderConditionals ==
    /\ fpc = "loops"
    /\ fout' = [fout EXCEPT !.text = ProcessConditionals(fout.text, fin.data_dict)]
    /\ fpc' = "conditionals"
    /\ UNCHANGED fin
    /\ UNCHANGED engine_vars

\* render_template lines 46-48
RenderVariables ==
    /\ fpc = "conditionals"
    /\ fout' = [fout EXCEPT !.text = ProcessVariables(fout.text, fin.data_dict)]
    /\ fpc' = "done"
    /\ UNCHANGED fin
    /\ UNCHANGED engine_vars

StagesNext == RenderLoops \/ RenderConditionals \/ RenderVariables

SpecStages == StagesInit /\ [][StagesNext]_vars

\* a construct that refers to nothing the context can give: a placeholder whose name
\* is not a key, or a loop whose collection is absent, not a list, or an empty list
MissingReference(p, data_dict) ==
    \/ p.kind = "var" /\ Strip(p.name) \notin DOMAIN data_dict
    \/ /\ p.kind = "loop"
       /\ \/ p.coll \notin DOMAIN data_dict
          \/ data_dict[p.coll].type # "list"
          \/ data_dict[p.coll].items = <<>>

\* C11: a render never aborts because of a missing reference: in a template of
\* literal texts, placeholders whose name is not a key of the context and loops whose
\* collection is absent, not a sequence or empty, each such placeholder is replaced by
\* exactly "[name]", each such loop by the empty string, and nothing is raised.
C11_MissingReferencesRender ==
    (/\ fpc \in {"done", "raised"}
     /\ \A i \in 1..Len(fin.pieces) :
           fin.pieces[i].kind = "text" \/ MissingReference(fin.pieces[i], fin.data_dict))
    => /\ fpc = "done"
       /\ ~fout.raised
       /\ fout.text = Concat([i \in 1..Len(fin.pieces) |->
                                 IF fin.pieces[i].kind = "text" THEN fin.pieces[i].body
                                 ELSE IF fin.pieces[i].kind = "var"
                                 THEN <<"[">> \o Strip(fin.pieces[i].name) \o <<"]">>
                                 ELSE <<>>])

\* a template of a placeholder with spaces around a missing name and a loop over a
\* text was rendered to "[zz]" against the context of every value kind
C11_Witness ==
    /\ fpc = "done"
    /\ fin.data_dict = StageContext
    /\ fin.pieces = <<Piece("var", <<" ", "z", "z", " ">>, <<>>, <<>>, "none", <<>>),
                      Piece("loop", <<"i">>, <<"s">>, <<"B">>, "none", <<>>)>>
    /\ fout.text = <<"[", "z", "z", "]">>

\* what the claim says the placeholder of a loop body becomes for one element: the
\* string form of the element or of the value its path reaches, "[item.path]" for a
\* path that cannot be resolved
ClaimedHole(p, item) ==
    IF p.hole = "bare" THEN PyStr(item)
    ELSE LET r == ResolvePath(item, Split(p.path, "."))
         IN  IF r.status # "ok" THEN <<"[">> \o p.name \o T_Dot \o p.path \o <<"]">>
             ELSE IF r.value.type = "NoneType" THEN <<>>
             ELSE PyStr(r.value)

\* C12: inside a loop body a triple-delimited placeholder of the loop variable is
\* replaced by exactly the string form of the value it denotes, no delimiter character
\* left behind: the element itself for a scalar element, the value reached by the
\* dotted path for a structured one, "[item.a.b]" for a path with a segment that cannot
\* be resolved; and the render does not fail.
C12_LoopPlaceholderReplaced ==
    (/\ fpc \in {"done", "raised"}
     /\ Len(fin.pieces) = 1
     /\ fin.pieces[1].kind = "loop"
     /\ fin.pieces[1].hole # "none"
     /\ ~MissingReference(fin.pieces[1], fin.data_dict)
     /\ \A n \in 1..Len(fin.data_dict[fin.pieces[1].coll].items) :
           fin.pieces[1].hole = "bare" =>
               fin.data_dict[fin.pieces[1].coll].items[n].type \notin {"dict", "list"})
    => /\ fpc = "done"
       /\ fout.text = Join([n \in 1..Len(fin.data_dict[fin.pieces[1].coll].items) |->
                               fin.pieces[1].body
                               \o ClaimedHole(fin.pieces[1],
                                              fin.data_dict[fin.pieces[1].coll].items[n])],
                           T_NL)

(***************************************************************************)
(* LaTeXGenerator._latex_escape (core/latex_generator.py).                 *)
(***************************************************************************)
\* the replacement of one character (lines 60-81)
EscapeChar(char) ==
    IF char = "\\" THEN <<"\\", "t", "e", "x", "t", "b", "a", "c", "k", "s", "l", "a", "s", "h",
                          "{", "}">>
    ELSE IF char = "&" THEN <<"\\", "&">>
    ELSE IF char = "%" THEN <<"\\", "%">>
    ELSE IF char = "$" THEN <<"\\", "$">>
    ELSE IF char = "#" THEN <<"\\", "#">>
    ELSE IF char = "^" THEN <<"\\", "t", "e", "x", "t", "a", "s", "c", "i", "i", "c", "i", "r",
                              "c", "u", "m", "{", "}">>
    ELSE IF char = "_" THEN <<"\\", "_">>
    ELSE IF char = "{" THEN <<"\\", "{">>
    ELSE IF char = "}" THEN <<"\\", "}">>
    ELSE IF char = "~" THEN <<"\\", "t", "e", "x", "t", "a", "s", "c", "i", "i", "t", "i", "l",
                              "d", "e", "{", "}">>
    ELSE <<char>>

\* an escape made of successive replacements over the whole text, one reserved
\* character after the other, the backslash last
RECURSIVE ReplaceEach(_, _)
ReplaceEach(text, chars) ==
    IF chars = <<>> THEN text
    ELSE ReplaceEach(Replace(text, <<Head(chars)>>, EscapeChar(Head(chars))), Tail(chars))

LatexEscape_Successive(text) ==
    ReplaceEach(text, <<"&", "%", "$", "#", "^", "_", "{", "}", "~", "\\">>)

\* the loop of _latex_escape: result += ... for each character of the text
RECURSIVE LatexEscape(_)
LatexEscape(text) ==
    IF text = <<>> THEN <<>> ELSE EscapeChar(Head(text)) \o LatexEscape(Tail(text))

(***************************************************************************)
(* The resume record (models/resume_data.py) and the template context      *)
(* _prepare_template_data makes of it.                                     *)
(***************************************************************************)
ContactInfo(email, phone) == [email |-> email, phone |-> phone]

Website(text, url, icon) == [text |-> text, url |-> url, icon |-> icon]

BasicInfo(name, address, contact, websites) ==
    [name |-> name, address |-> address, contact |-> contact, websites |-> websites]

\* gpa is None in every degree of the model
Degree(names, startdate, enddate) ==
    [names |-> names, startdate |-> startdate, enddate |-> enddate, gpa |-> None]

Education(school, degrees, achievements) ==
    [school |-> school, degrees |-> degrees, achievements |-> achievements]

ResearchData(title, description, publication_date, collaborators, keywords) ==
    [title |-> title, description |-> description, publication_date |-> publication_date,
     collaborators |-> collaborators, keywords |-> keywords]

\* a text as a key or a literal value, written as a tuple of characters
OptText(x) == IF x = None THEN PyNone ELSE PyText(x)

TextList(l) == PyList([i \in 1..Len(l) |-> PyText(l[i])])

\* dataclasses.asdict, class by class, fields in declaration order
AsDictContact(c) ==
    PyDict(<<PyEntry(<<"e", "m", "a", "i", "l">>, PyText(c.email)),
             PyEntry(<<"p", "h", "o", "n", "e">>, PyText(c.phone))>>)

AsDictWebsite(w) ==
    PyDict(<<PyEntry(<<"t", "e", "x", "t">>, PyText(w.text)),
             PyEntry(<<"u", "r", "l">>, PyText(w.url)),
             PyEntry(<<"i", "c", "o", "n">>, OptText(w.icon))>>)

AsDictBasic(b) ==
    PyDict(<<PyEntry(<<"n", "a", "m", "e">>, PyText(b.name)),
             PyEntry(<<"a", "d", "d", "r", "e", "s", "s">>, TextList(b.address)),
             PyEntry(<<"c", "o", "n", "t", "a", "c", "t">>, AsDictContact(b.contact)),
             PyEntry(<<"w", "e", "b", "s", "i", "t", "e", "s">>,
                     PyList([i \in 1..Len(b.websites) |-> AsDictWebsite(b.websites[i])]))>>)

AsDictTitle(t) ==
    PyDict(<<PyEntry(<<"n", "a", "m", "e">>, PyText(t.name)),
             PyEntry(<<"s", "t", "a", "r", "t", "d", "a", "t", "e">>, PyText(t.startdate)),
             PyEntry(<<"e", "n", "d", "d", "a", "t", "e">>, PyText(t.enddate))>>)

AsDictExperience(e) ==
    PyDict(<<PyEntry(<<"c", "o", "m", "p", "a", "n", "y">>, PyText(e.company)),
             PyEntry(<<"t", "i", "t", "l", "e", "s">>,
                     PyList([i \in 1..Len(e.titles) |-> AsDictTitle(e.titles[i])])),
             PyEntry(<<"h", "i", "g", "h", "l", "i", "g", "h", "t", "s">>, TextList(e.highlights)),
             PyEntry(<<"u", "n", "e", "d", "i", "t", "e", "d">>, TextList(e.unedited))>>)

AsDictDegree(d) ==
    PyDict(<<PyEntry(<<"n", "a", "m", "e", "s">>, TextList(d.names)),
             PyEntry(<<"s", "t", "a", "r", "t", "d", "a", "t", "e">>, PyText(d.startdate)),
             PyEntry(<<"e", "n", "d", "d", "a", "t", "e">>, PyText(d.enddate)),
             PyEntry(<<"g", "p", "a">>, PyNone)>>)

AsDictEducation(e) ==
    PyDict(<<PyEntry(<<"s", "c", "h", "o", "o", "l">>, PyText(e.school)),
             PyEntry(<<"d", "e", "g", "r", "e", "e", "s">>,
                     PyList([i \in 1..Len(e.degrees) |-> AsDictDegree(e.degrees[i])])),
             PyEntry(<<"a", "c", "h", "i", "e", "v", "e", "m", "e", "n", "t", "s">>,
                     TextList(e.achievements))>>)

AsDictProject(p) ==
    PyDict(<<PyEntry(<<"n", "a", "m", "e">>, PyText(p.name)),
             PyEntry(<<"d", "e", "s", "c", "r", "i", "p", "t", "i", "o", "n">>,
                     PyText(p.description)),
             PyEntry(<<"s", "u", "b", "t", "i", "t", "l", "e">>, OptText(p.subtitle)),
             PyEntry(<<"u", "r", "l">>, OptText(p.url)),
             PyEntry(<<"t", "e", "c", "h", "n", "o", "l", "o", "g", "i", "e", "s">>,
                     TextList(p.technologies)),
             PyEntry(<<"h", "i", "g", "h", "l", "i", "g", "h", "t", "s">>, TextList(p.highlights))>>)

AsDictResearch(r) ==
    PyDict(<<PyEntry(<<"t", "i", "t", "l", "e">>, PyText(r.title)),
             PyEntry(<<"d", "e", "s", "c", "r", "i", "p", "t", "i", "o", "n">>,
                     PyText(r.description)),
             PyEntry(<<"p", "u", "b", "l", "i", "c", "a", "t", "i", "o", "n", "_", "d", "a", "t", "e">>,
                     OptText(r.publication_date)),
             PyEntry(<<"c", "o", "l", "l", "a", "b", "o", "r", "a", "t", "o", "r", "s">>,
                     TextList(r.collaborators)),
             PyEntry(<<"k", "e", "y", "w", "o", "r", "d", "s">>, TextList(r.keywords))>>)

AsDictSkillCategory(c) ==
    PyDict(<<PyEntry(<<"c", "a", "t", "e", "g", "o", "r", "y">>, PyText(c.category)),
             PyEntry(<<"s", "k", "i", "l", "l", "s">>, TextList(c.skills))>>)

\* asdict(resume_data) as (key, value) pairs in field order
AsDictResume(r) ==
    << <<<<"b", "a", "s", "i", "c">>, AsDictBasic(r.basic)>>,
       <<<<"s", "u", "m", "m", "a", "r", "y">>, OptText(r.summary)>>,
       <<<<"e", "x", "p", "e", "r", "i", "e", "n", "c", "e", "s">>,
         PyList([i \in 1..Len(r.experiences) |-> AsDictExperience(r.experiences[i])])>>,
       <<<<"e", "d", "u", "c", "a", "t", "i", "o", "n">>,
         PyList([i \in 1..Len(r.education) |-> AsDictEducation(r.education[i])])>>,
       <<<<"p", "r", "o", "j", "e", "c", "t", "s">>,
         PyList([i \in 1..Len(r.projects) |-> AsDictProject(r.projects[i])])>>,
       <<<<"r", "e", "s", "e", "a", "r", "c", "h">>,
         PyList([i \in 1..Len(r.research) |-> AsDictResearch(r.research[i])])>>,
       <<<<"s", "k", "i", "l", "l", "s">>,
         PyList([i \in 1..Len(r.skills) |-> AsDictSkillCategory(r.skills[i])])>> >>

UpperLetters == <<"A", "B", "C", "D", "E", "F", "G", "H", "I", "J", "K", "L", "M",
                  "N", "O", "P", "Q", "R", "S", "T", "U", "V", "W", "X", "Y", "Z">>

LowerLetters == <<"a", "b", "c", "d", "e", "f", "g", "h", "i", "j", "k", "l", "m",
                  "n", "o", "p", "q", "r", "s", "t", "u", "v", "w", "x", "y", "z">>

\* str.lower() and str.upper() on ASCII text
Lower(s) ==
    [i \in 1..Len(s) |->
        IF \E k \in 1..26 : UpperLetters[k] = s[i]
        THEN LowerLetters[CHOOSE k \in 1..26 : UpperLetters[k] = s[i]] ELSE s[i]]

Upper(s) ==
    [i \in 1..Len(s) |->
        IF \E k \in 1..26 : LowerLetters[k] = s[i]
        THEN UpperLetters[CHOOSE k \in 1..26 : LowerLetters[k] = s[i]] ELSE s[i]]

\* p in s, for texts
ContainsText(s, p) == \E i \in 1..(Len(s) - Len(p) + 1) : OccursAt(s, p, i)

(***************************************************************************)
(* DynamicTemplateEngine._prepare_template_data and render_template.       *)
(***************************************************************************)
\* the keys one website adds (lines 74-82)
WebsitePairs(w) ==
    IF ContainsText(Lower(w.text), <<"p", "o", "r", "t", "f", "o", "l", "i", "o">>)
    THEN << <<<<"P", "O", "R", "T", "F", "O", "L", "I", "O", "_", "U", "R", "L">>, PyText(w.url)>> >>
    ELSE IF ContainsText(Lower(w.text), <<"l", "i", "n", "k", "e", "d", "i", "n">>)
    THEN << <<<<"L", "I", "N", "K", "E", "D", "I", "N", "_", "U", "R", "L">>, PyText(w.url)>>, <<<<"L", "I", "N", "K", "E", "D", "I", "N", "_", "T", "E", "X", "T">>, PyText(w.text)>> >>
    ELSE IF ContainsText(Lower(w.text), <<"g", "i", "t", "h", "u", "b">>)
    THEN << <<<<"G", "I", "T", "H", "U", "B", "_", "U", "R", "L">>, PyText(w.url)>>, <<<<"G", "I", "T", "H", "U", "B", "_", "T", "E", "X", "T">>, PyText(w.text)>> >>
    ELSE <<>>

\* the keys the first education entry adds (lines 85-94); str(gpa) of a degree
\* without gpa is "None"
EducationPairs(education) ==
    IF education = <<>> THEN <<>>
    ELSE LET edu == education[1]
             has == edu.degrees # <<>>
         IN  << <<<<"E", "D", "U", "C", "A", "T", "I", "O", "N", "_", "S", "C", "H", "O", "O", "L">>, PyText(edu.school)>>,
                <<<<"E", "D", "U", "C", "A", "T", "I", "O", "N", "_", "L", "O", "C", "A", "T", "I", "O", "N">>, PyText(<<>>)>>,
                <<<<"E", "D", "U", "C", "A", "T", "I", "O", "N", "_", "D", "E", "G", "R", "E", "E">>,
                  PyText(IF has THEN Join(edu.degrees[1].names, T_CommaSpace) ELSE <<>>)>>,
                <<<<"E", "D", "U", "C", "A", "T", "I", "O", "N", "_", "G", "P", "A">>, PyText(IF has THEN PyStr(PyNone) ELSE <<>>)>>,
                <<<<"E", "D", "U", "C", "A", "T", "I", "O", "N", "_", "D", "A", "T", "E", "S">>,
                  PyText(IF has THEN edu.degrees[1].startdate \o <<" ", "-", " ">>
                                     \o edu.degrees[1].enddate
                         ELSE <<>>)>>,
                <<<<"E", "D", "U", "C", "A", "T", "I", "O", "N", "_", "C", "O", "U", "R", "S", "E", "W", "O", "R", "K">>, PyText(Join(edu.achievements, T_CommaSpace))>> >>

\* the key one skill category adds (lines 99-101)
SkillPair(c) ==
    <<<<"S", "K", "I", "L", "L", "S", "_">> \o Replace(Upper(c.category), <<" ">>, <<"_">>),
      PyText(Join(c.skills, T_CommaSpace))>>

\* DynamicTemplateEngine._prepare_template_data
PrepareTemplateData(r) ==
    ContextOf(AsDictResume(r)
              \o << <<<<"N", "A", "M", "E">>, PyText(r.basic.name)>>,
                    <<<<"E", "M", "A", "I", "L">>, PyText(r.basic.contact.email)>>,
                    <<<<"P", "H", "O", "N", "E">>, PyText(r.basic.contact.phone)>> >>
              \o Concat([i \in 1..Len(r.basic.websites) |-> WebsitePairs(r.basic.websites[i])])
              \o EducationPairs(r.education)
              \o [i \in 1..Len(r.skills) |-> SkillPair(r.skills[i])])

\* an order in which the placeholders are looked up before the blocks are pruned
StageOrder_VariablesFirst == <<"variables", "loops", "conditionals">>

\* DynamicTemplateEngine.render_template: the three stages in order on the prepared
\* context; an exception becomes TemplateValidationError
RenderTemplate(template_content, r) ==
    LET data_dict == PrepareTemplateData(r)
        rendered == ProcessLoops(template_content, data_dict)
    IN  IF Contains(rendered, ValueErrorMark)
        THEN [raised |-> "TemplateValidationError", text |-> <<>>]
        ELSE [raised |-> "",
              text |-> ProcessVariables(ProcessConditionals(rendered, data_dict), data_dict)]

T_TexSuffix == <<".", "t", "e", "x">>

\* TemplateManager.load_template: the name with ".tex" appended unless it ends with
\* it, looked up in the template directory
LoadTemplate(directory, template_name) ==
    LET file == IF EndsWith(template_name, T_TexSuffix) THEN template_name
                ELSE template_name \o T_TexSuffix
    IN  IF file \in DOMAIN directory
        THEN [raised |-> "", text |-> directory[file]]
        ELSE [raised |-> "FileNotFoundError", text |-> <<>>]

\* TemplateManager.render_resume
RenderResume(directory, template_name, r) ==
    LET loaded == LoadTemplate(directory, template_name)
    IN  IF loaded.raised # "" THEN loaded ELSE RenderTemplate(loaded.text, r)

\* LaTeXGenerator.generate_latex: every exception becomes LaTeXGenerationError
GenerateLatexResult(directory, template_name, r) ==
    LET rendered == RenderResume(directory, template_name, r)
    IN  IF rendered.raised # "" THEN [raised |-> "LaTeXGenerationError", text |-> <<>>]
        ELSE rendered

(***************************************************************************)
(* ResumeData.validate (models/resume_data.py).                            *)
(***************************************************************************)
\* a message built by a format string: its fixed parts as they are written, the number
\* as its digits
Message(prefix, n, rest) == <<prefix>> \o IntText(n) \o <<rest>>

ValidateBasic(basic) ==
    (IF Strip(basic.name) = <<>> THEN <<<<"Name is required">>>> ELSE <<>>)
    \o (IF Strip(basic.contact.email) = <<>> THEN <<<<"Email is required">>>> ELSE <<>>)
    \o (IF Strip(basic.contact.phone) = <<>> THEN <<<<"Phone is required">>>> ELSE <<>>)
    \o (IF basic.address = <<>> THEN <<<<"Address is required">>>> ELSE <<>>)

ValidateTitle(i, j, title) ==
    LET where == <<"Experience ">> \o IntText(i) \o <<", Title ">> \o IntText(j)
    IN  (IF Strip(title.name) = <<>> THEN <<where \o <<": Job title name is required">>>>
         ELSE <<>>)
        \o (IF Strip(title.startdate) = <<>> THEN <<where \o <<": Start date is required">>>>
            ELSE <<>>)
        \o (IF Strip(title.enddate) = <<>> THEN <<where \o <<": End date is required">>>>
            ELSE <<>>)

ValidateExperience(i, exp) ==
    (IF Strip(exp.company) = <<>>
     THEN <<Message("Experience ", i, ": Company name is required")>> ELSE <<>>)
    \o (IF exp.titles = <<>>
        THEN <<Message("Experience ", i, ": At least one job title is required")>> ELSE <<>>)
    \o Concat([j \in 1..Len(exp.titles) |-> ValidateTitle(i, j, exp.titles[j])])

ValidateDegree(i, j, degree) ==
    LET where == <<"Education ">> \o IntText(i) \o <<", Degree ">> \o IntText(j)
    IN  (IF degree.names = <<>> THEN <<where \o <<": Degree name is required">>>> ELSE <<>>)
        \o (IF Strip(degree.startdate) = <<>> THEN <<where \o <<": Start date is required">>>>
            ELSE <<>>)
        \o (IF Strip(degree.enddate) = <<>> THEN <<where \o <<": End date is required">>>>
            ELSE <<>>)

ValidateEducation(i, edu) ==
    (IF Strip(edu.school) = <<>>
     THEN <<Message("Education ", i, ": School name is required")>> ELSE <<>>)
    \o (IF edu.degrees = <<>>
        THEN <<Message("Education ", i, ": At least one degree is required")>> ELSE <<>>)
    \o Concat([j \in 1..Len(edu.degrees) |-> ValidateDegree(i, j, edu.degrees[j])])

ValidateSkillCategory(i, skill_cat) ==
    (IF Strip(skill_cat.category) = <<>>
     THEN <<Message("Skill category ", i, ": Category name is required")>> ELSE <<>>)
    \o (IF skill_cat.skills = <<>>
        THEN <<Message("Skill category ", i, ": At least one skill is required")>> ELSE <<>>)

ValidateProject(i, project) ==
    (IF Strip(project.name) = <<>>
     THEN <<Message("Project ", i, ": Project name is required")>> ELSE <<>>)
    \o (IF Strip(project.description) = <<>>
        THEN <<Message("Project ", i, ": Project description is required")>> ELSE <<>>)

ValidateResearch(i, research) ==
    (IF Strip(research.title) = <<>>
     THEN <<Message("Research ", i, ": Research title is required")>> ELSE <<>>)
    \o (IF Strip(research.description) = <<>>
        THEN <<Message("Research ", i, ": Research description is required")>> ELSE <<>>)

\* a validate that stops at the first violation it meets
Validate_FirstOnly(r) ==
    LET all == ValidateBasic(r.basic)
               \o Concat([i \in 1..Len(r.experiences) |-> ValidateExperience(i, r.experiences[i])])
               \o Concat([i \in 1..Len(r.education) |-> ValidateEducation(i, r.education[i])])
               \o Concat([i \in 1..Len(r.skills) |-> ValidateSkillCategory(i, r.skills[i])])
               \o Concat([i \in 1..Len(r.projects) |-> ValidateProject(i, r.projects[i])])
               \o Concat([i \in 1..Len(r.research) |-> ValidateResearch(i, r.research[i])])
    IN  IF all = <<>> THEN all ELSE <<Head(all)>>

\* ResumeData.validate: the messages in the order the checks are made
Validate(r) ==
    ValidateBasic(r.basic)
    \o Concat([i \in 1..Len(r.experiences) |-> ValidateExperience(i, r.experiences[i])])
    \o Concat([i \in 1..Len(r.education) |-> ValidateEducation(i, r.education[i])])
    \o Concat([i \in 1..Len(r.skills) |-> ValidateSkillCategory(i, r.skills[i])])
    \o Concat([i \in 1..Len(r.projects) |-> ValidateProject(i, r.projects[i])])
    \o Concat([i \in 1..Len(r.research) |-> ValidateResearch(i, r.research[i])])

(***************************************************************************)
(* validate and generate_latex on resume records, valid and invalid, with  *)
(* reserved characters in their texts, and a directory of one template.    *)
(***************************************************************************)
GenBasics ==
    {BasicInfo(<<"J", "&", "J">>, <<<<"s">>>>, ContactInfo(<<"e">>, <<"5">>),
               <<Website(<<"G", "i", "t", "H", "u", "b">>, <<"u">>, None)>>),
     BasicInfo(<<" ">>, <<<<"s">>>>, ContactInfo(<<"e">>, <<"5">>), <<>>),
     BasicInfo(<<>>, <<>>, ContactInfo(<<>>, <<>>), <<>>)}

GenSummaries == {None, <<"5", "0", "%">>}

GenExperienceLists ==
    LET good == Experience(<<"C", "_", "1">>, <<JobTitle(<<"T">>, <<"1">>, <<"2">>)>>, <<<<"h", "#">>>>, <<>>)
        bad == Experience(<<>>, <<JobTitle(<<" ">>, <<>>, <<"2">>)>>, <<>>, <<>>)
    IN  {<<>>, <<good>>, <<good, bad>>}

GenEducationLists ==
    {<<>>,
     <<Education(<<"S">>, <<Degree(<<<<"B", "S">>>>, <<"1">>, <<"2">>)>>, <<<<"a">>>>)>>,
     <<Education(<<>>, <<>>, <<>>), Education(<<"S">>, <<Degree(<<>>, <<>>, <<>>)>>, <<>>)>>}

GenSkillLists ==
    {<<>>,
     <<SkillCategory(<<"W", "e", "b", " ", "D", "e", "v">>, <<<<"k">>, <<"l">>>>)>>,
     <<SkillCategory(<<"c">>, <<>>)>>,
     <<SkillCategory(<<>>, <<<<"k">>>>)>>}

GenProjectLists == {<<>>, <<ProjectData(<<"n">>, <<>>, None, None, <<>>, <<>>)>>}

\* research entries come with the project entries
GenResearchFor(projects) ==
    IF projects = <<>> THEN <<>> ELSE <<ResearchData(<<>>, <<"d">>, None, <<>>, <<>>)>>

\* the template of the scenario: the name, the summary under a conditional, the
\* companies in a loop, the skills of one category
GenTemplate ==
    <<"{", "{", "{", "N", "A", "M", "E", "}", "}", "}", "|", "{", "%", " ", "i", "f", " ", "s", "u", "m", "m", "a", "r", "y", " ", "%", "}", "{", "{", "{", "s", "u", "m", "m", "a", "r", "y", "}", "}", "}", "{", "%", " ", "e", "n", "d", "i", "f", " ", "%", "}", "|">>
    \o <<"{", "%", " ", "f", "o", "r", " ", "e", " ", "i", "n", " ", "e", "x", "p", "e", "r", "i", "e", "n", "c", "e", "s", " ", "%", "}", "{", "{", "{", "e", ".", "c", "o", "m", "p", "a", "n", "y", "}", "}", "}", "{", "%", " ", "e", "n", "d", "f", "o", "r", " ", "%", "}", "|", "{", "{", "{", "S", "K", "I", "L", "L", "S", "_", "W", "E", "B", "_", "D", "E", "V", "}", "}", "}">>

\* the template directory: one file
GenDirectory == ContextOf(<< <<<<"r", "e", "s", "u", "m", "e", ".", "t", "e", "x">>, GenTemplate>> >>)

GenTemplateNames == {<<"r", "e", "s", "u", "m", "e">>, <<"r", "e", "s", "u", "m", "e", ".", "t", "e", "x">>, <<"c", "v">>}

GenerateInit ==
    /\ EngineOff
    /\ fpc = "input"
    /\ \E basic \in GenBasics, summary \in GenSummaries, experiences \in GenExperienceLists,
          education \in GenEducationLists, skills \in GenSkillLists,
          projects \in GenProjectLists, template_name \in GenTemplateNames :
            fin = [resume_data |-> ResumeData(basic, summary, experiences, education,
                                              projects, GenResearchFor(projects), skills),
                   template_name |-> template_name, directory |-> GenDirectory]
    /\ fout = [errors |-> <<>>, raised |-> "", latex |-> <<>>]

\* resume_data.validate()
ResumeValidate ==
    /\ fpc = "input"
    /\ fout' = [fout EXCEPT !.errors = Validate(fin.resume_data)]
    /\ fpc' = "validated"
    /\ UNCHANGED fin
    /\ UNCHANGED engine_vars

\* LaTeXGenerator.generate_latex(resume_data, template_name), called on a record
\* whether or not validate was called on it before
GenerateLatex ==
    /\ fpc \in {"input", "validated"}
    /\ LET g == GenerateLatexResult(fin.directory, fin.template_name, fin.resume_data)
       IN  fout' = [fout EXCEPT !.raised = g.raised, !.latex = g.text]
    /\ fpc' = "done"
    /\ UNCHANGED fin
    /\ UNCHANGED engine_vars

GenerateNext == ResumeValidate \/ GenerateLatex

SpecGenerate == GenerateInit /\ [][GenerateNext]_vars

\* C13: every user-sourced value that generate_latex writes into the document has
\* passed through the markup escaper exactly once, so no reserved character of a data
\* value appears unescaped: the document made from the scenario's template, which
\* starts with the name placeholder, starts with the escaped name.
C13_UserTextEscaped ==
    (fpc = "done" /\ fout.raised = "")
    => StartsWith(fout.latex, LatexEscape(fin.resume_data.basic.name) \o <<"|">>)

(***************************************************************************)
(* _latex_escape on two texts and on their concatenation.                  *)
(***************************************************************************)
\* the ten reserved characters and one ordinary character
EscapeAlphabet == {"\\", "&", "%", "$", "#", "^", "_", "{", "}", "~", "a"}

\* second texts: empty, a backslash, a brace, an ordinary character before a reserved one
EscapeSuffixes == {<<>>, <<"\\">>, <<"{">>, <<"a", "&">>}

EscapeInit ==
    /\ EngineOff
    /\ fpc = "input"
    /\ \E a \in SeqsUpTo(EscapeAlphabet, MaxEscapeLen), b \in EscapeSuffixes :
          fin = [a |-> a, b |-> b]
    /\ fout = [a |-> <<>>, b |-> <<>>, ab |-> <<>>]

\* _latex_escape(a), _latex_escape(b), _latex_escape(a + b)
EscapeTexts ==
    /\ fpc = "input"
    /\ fout' = [a |-> LatexEscape(fin.a), b |-> LatexEscape(fin.b),
                ab |-> LatexEscape(fin.a \o fin.b)]
    /\ fpc' = "done"
    /\ UNCHANGED fin
    /\ UNCHANGED engine_vars

EscapeNext == EscapeTexts

SpecEscape == EscapeInit /\ [][EscapeNext]_vars

\* the fixed replacement sequences, as the claim lists them
ClaimedReplacements ==
    ContextOf(<< <<"\\", <<"\\", "t", "e", "x", "t", "b", "a", "c", "k", "s", "l", "a", "s", "h", "{", "}">>>>, <<"&", <<"\\", "&">>>>, <<"%", <<"\\", "%">>>>,
                 <<"$", <<"\\", "$">>>>, <<"#", <<"\\", "#">>>>, <<"^", <<"\\", "t", "e", "x", "t", "a", "s", "c", "i", "i", "c", "i", "r", "c", "u", "m", "{", "}">>>>,
                 <<"_", <<"\\", "_">>>>, <<"{", <<"\\", "{">>>>, <<"}", <<"\\", "}">>>>,
                 <<"~", <<"\\", "t", "e", "x", "t", "a", "s", "c", "i", "i", "t", "i", "l", "d", "e", "{", "}">>>> >>)

\* C14: _latex_escape maps its input character by character in one pass: each
\* reserved character becomes its fixed replacement, every other character is copied,
\* nothing produced by a replacement is escaped again; so the escape of a
\* concatenation is the concatenation of the escapes.
C14_EscapeIsCharacterwise ==
    fpc = "done" =>
        /\ fout.a = Concat([i \in 1..Len(fin.a) |->
                               IF fin.a[i] \in DOMAIN ClaimedReplacements
                               THEN ClaimedReplacements[fin.a[i]] ELSE <<fin.a[i]>>])
        /\ fout.ab = fout.a \o fout.b

\* a backslash and an opening brace, followed by a second text of one backslash
C14_Witness ==
    /\ fpc = "done"
    /\ fin.a = <<"\\", "{">>
    /\ fin.b = <<"\\">>
    /\ fout.ab = <<"\\", "t", "e", "x", "t", "b", "a", "c", "k", "s", "l", "a", "s", "h", "{", "}", "\\", "{", "\\", "t", "e", "x", "t", "b", "a", "c", "k", "s", "l", "a", "s", "h", "{", "}">>

(***************************************************************************)
(* Prompt configuration: PromptValidator and PromptLoader.                 *)
(* Numbers of the model parameters are kept in tenths (0.5 is 5, 100 is    *)
(* 1000), with the Python type beside them.                                *)
(***************************************************************************)
\* a key that a dictionary of the configuration does not hold
Absent == <<"absent">>

\* self.valid_template_variables
TemplateSections == {"summary", "experience", "skills", "projects"}

valid_template_variables(prompt_name) ==
    CASE prompt_name = "summary" ->
            {<<"j", "o", "b", "_", "c", "o", "n", "t", "e", "x", "t">>, <<"c", "o", "n", "t", "e", "n", "t">>, <<"e", "x", "p", "e", "r", "i", "e", "n", "c", "e", "s", "_", "s", "u", "m", "m", "a", "r", "y">>, <<"p", "r", "o", "j", "e", "c", "t", "s", "_", "s", "u", "m", "m", "a", "r", "y">>,
             <<"s", "k", "i", "l", "l", "s", "_", "s", "u", "m", "m", "a", "r", "y">>, <<"e", "d", "u", "c", "a", "t", "i", "o", "n", "_", "s", "u", "m", "m", "a", "r", "y">>, <<"r", "e", "s", "e", "a", "r", "c", "h", "_", "s", "u", "m", "m", "a", "r", "y">>}
      [] prompt_name = "experience" ->
            {<<"j", "o", "b", "_", "c", "o", "n", "t", "e", "x", "t">>, <<"c", "o", "n", "t", "e", "n", "t">>, <<"f", "u", "l", "l", "_", "c", "o", "n", "t", "e", "x", "t">>, <<"t", "a", "r", "g", "e", "t", "_", "s", "k", "i", "l", "l", "s">>}
      [] prompt_name = "skills" ->
            {<<"j", "o", "b", "_", "c", "o", "n", "t", "e", "x", "t">>, <<"c", "o", "n", "t", "e", "n", "t">>, <<"t", "a", "r", "g", "e", "t", "_", "s", "k", "i", "l", "l", "s">>, <<"u", "s", "e", "r", "_", "e", "x", "p", "e", "r", "i", "e", "n", "c", "e", "_", "l", "e", "v", "e", "l">>,
             <<"r", "e", "l", "e", "v", "a", "n", "t", "_", "p", "r", "o", "j", "e", "c", "t", "s">>}
      [] prompt_name = "projects" ->
            {<<"j", "o", "b", "_", "c", "o", "n", "t", "e", "x", "t">>, <<"c", "o", "n", "t", "e", "n", "t">>, <<"t", "a", "r", "g", "e", "t", "_", "s", "k", "i", "l", "l", "s">>, <<"t", "e", "c", "h", "n", "i", "c", "a", "l", "_", "b", "a", "c", "k", "g", "r", "o", "u", "n", "d">>}

\* self.valid_template_variables.get(prompt_name, set())
ValidVars(prompt_name) ==
    IF prompt_name \in TemplateSections THEN valid_template_variables(prompt_name) ELSE {}

\* self.valid_model_params, in the order of the dictionary
ParamConfig(name, type, required, bounded, min, max) ==
    [name |-> name, type |-> type, required |-> required, bounded |-> bounded,
     min |-> min, max |-> max]

valid_model_params ==
    << ParamConfig("model", <<"str">>, TRUE, FALSE, 0, 0),
       ParamConfig("max_tokens", <<"int">>, TRUE, TRUE, 10, 40000),
       ParamConfig("temperature", <<"int", "float">>, TRUE, TRUE, 0, 20),
       ParamConfig("timeout", <<"int">>, FALSE, TRUE, 10, 3000),
       ParamConfig("top_p", <<"int", "float">>, FALSE, TRUE, 0, 10),
       ParamConfig("frequency_penalty", <<"int", "float">>, FALSE, TRUE, -20, 20),
       ParamConfig("presence_penalty", <<"int", "float">>, FALSE, TRUE, -20, 20) >>

\* a value of a model parameter
Param(name, type, num) == [name |-> name, type |-> type, num |-> num]

\* a dictionary of model parameters, or a value that is no dictionary
ParamDict(entries) == [dict |-> TRUE, absent |-> FALSE, entries |-> entries]

NotADict == [dict |-> FALSE, absent |-> FALSE, entries |-> <<>>]

\* what .get(key, {}) finds when the key is missing
AbsentDict == [dict |-> FALSE, absent |-> TRUE, entries |-> <<>>]

\* isinstance(value, expected): a bool is an int
IsInstance(type, expected) ==
    \E i \in 1..Len(expected) : expected[i] = type \/ (expected[i] = "int" /\ type = "bool")

\* str(n) of a natural number
RECURSIVE DecimalText(_)
DecimalText(n) == IF n < 10 THEN <<Digits[n + 1]>>
                  ELSE DecimalText(n \div 10) \o <<Digits[(n % 10) + 1]>>

\* str() of a number kept in tenths: 1000 as int is 100, 5 as float is 0.5
PyNumText(type, num) ==
    LET abs == IF num < 0 THEN 0 - num ELSE num
        sign == IF num < 0 THEN <<"-">> ELSE <<>>
    IN  IF type = "float"
        THEN sign \o DecimalText(abs \div 10) \o <<".">> \o DecimalText(abs % 10)
        ELSE sign \o DecimalText(abs \div 10)

\* the errors and warnings of a validator, and the exception that stopped it
Note(text) == [text |-> text, names |-> {}]

AddError(v, text) == [v EXCEPT !.errors = Append(@, Note(text))]

AddWarning(v, text) == [v EXCEPT !.warnings = Append(@, Note(text))]

HasParam(params, name) == \E i \in 1..Len(params.entries) : params.entries[i].name = name

GetParam(params, name) ==
    params.entries[CHOOSE i \in 1..Len(params.entries) : params.entries[i].name = name]

\* the range checks of one parameter against its entry c of valid_model_params
CheckRange(v, prompt_name, p, c) ==
    LET floatness == IF Len(c.type) = 1 THEN "int" ELSE "float"
        low == IF c.bounded /\ p.num < c.min
               THEN AddError(v, <<"Prompt '", prompt_name, "' parameter '", p.name, "' (">>
                                \o PyNumText(p.type, p.num) \o <<") must be >= ">>
                                \o PyNumText(floatness, c.min))
               ELSE v
    IN  IF c.bounded /\ p.num > c.max
        THEN AddError(low, <<"Prompt '", prompt_name, "' parameter '", p.name, "' (">>
                           \o PyNumText(p.type, p.num) \o <<") must be <= ">>
                           \o PyNumText(floatness, c.max))
        ELSE low

\* the type check of one known parameter; expected_type.__name__ of a tuple of
\* types raises AttributeError
CheckType(v, prompt_name, p, c) ==
    IF ~IsInstance(p.type, c.type)
    THEN IF Len(c.type) = 1
         THEN AddError(v, <<"Prompt '", prompt_name, "' parameter '", p.name,
                            "' must be of type ", c.type[1]>>)
         ELSE [v EXCEPT !.raised = "AttributeError"]
    ELSE CheckRange(v, prompt_name, p, c)

\* the body of the first loop of _validate_model_parameters for one parameter
CheckParameter(v, prompt_name, p) ==
    IF \A i \in 1..Len(valid_model_params) : valid_model_params[i].name # p.name
    THEN AddWarning(v, <<"Prompt '", prompt_name,
                         "' has unknown model parameter '", p.name, "'">>)
    ELSE CheckType(v, prompt_name, p,
                   valid_model_params[CHOOSE i \in 1..Len(valid_model_params) :
                                         valid_model_params[i].name = p.name])

\* the first loop of _validate_model_parameters
RECURSIVE CheckParameters(_, _, _)
CheckParameters(v, prompt_name, entries) ==
    IF entries = <<>> \/ v.raised # "" THEN v
    ELSE CheckParameters(CheckParameter(v, prompt_name, Head(entries)), prompt_name,
                         Tail(entries))

\* the second loop of _validate_model_parameters
RECURSIVE RequireParameters(_, _, _, _)
RequireParameters(v, prompt_name, params, i) ==
    IF i > Len(valid_model_params) THEN v
    ELSE LET c == valid_model_params[i]
             next == IF c.required /\ ~HasParam(params, c.name)
                     THEN AddError(v, <<"Prompt '", prompt_name,
                                        "' missing required model parameter '", c.name, "'">>)
                     ELSE v
         IN  RequireParameters(next, prompt_name, params, i + 1)

\* the second loop runs unless the first one raised
RequireUnlessRaised(checked, prompt_name, params) ==
    IF checked.raised # "" THEN checked
    ELSE RequireParameters(checked, prompt_name, params, 1)

\* _validate_model_parameters
ValidateModelParameters(v, prompt_name, params) ==
    RequireUnlessRaised(CheckParameters(v, prompt_name, params.entries), prompt_name, params)

\* a prompt configuration: a dictionary of three optional fields, or no dictionary
PromptDict(system_prompt, context_template, model_params) ==
    [dict |-> TRUE, system_prompt |-> system_prompt, context_template |-> context_template,
     model_params |-> model_params]

NotAPrompt ==
    [dict |-> FALSE, system_prompt |-> Absent, context_template |-> Absent,
     model_params |-> AbsentDict]

Prompt(name, config) == [name |-> name, config |-> config]

\* prompt_config[field], Absent when field not in prompt_config
PromptField(config, field) ==
    CASE field = "system_prompt" -> config.system_prompt
      [] field = "context_template" -> config.context_template
      [] field = "model_params" -> config.model_params


\* section in prompts
HasPrompt(prompts, name) == \E i \in 1..Len(prompts) : prompts[i].name = name

\* _validate_required_sections
RECURSIVE ValidateRequiredSections(_, _, _)
ValidateRequiredSections(v, required_sections, prompts) ==
    IF required_sections = <<>> THEN v
    ELSE LET section == Head(required_sections)
             next == IF ~HasPrompt(prompts, section)
                     THEN AddError(v, <<"Required prompt section '", section, "' is missing">>)
                     ELSE v
         IN  ValidateRequiredSections(next, Tail(required_sections), prompts)

\* the loop over required_fields; .strip() of None raises AttributeError
RECURSIVE CheckRequiredFields(_, _, _, _)
CheckRequiredFields(v, prompt_name, config, required_fields) ==
    IF required_fields = <<>> \/ v.raised # "" THEN v
    ELSE LET field == Head(required_fields)
             value == PromptField(config, field)
             next == IF (field = "model_params" /\ value.absent)
                        \/ (field # "model_params" /\ value = Absent)
                     THEN AddError(v, <<"Prompt '", prompt_name, "' missing required field '",
                                        field, "'">>)
                     ELSE IF field \in {"system_prompt", "context_template"}
                     THEN IF value = None THEN [v EXCEPT !.raised = "AttributeError"]
                          ELSE IF Strip(value) = <<>>
                          THEN AddError(v, <<"Prompt '", prompt_name, "' has empty ", field>>)
                          ELSE v
                     ELSE v
         IN  CheckRequiredFields(next, prompt_name, config, Tail(required_fields))

\* the loop over required_model_params
RECURSIVE CheckRequiredModelParams(_, _, _, _)
CheckRequiredModelParams(v, prompt_name, params, required_model_params) ==
    IF required_model_params = <<>> THEN v
    ELSE LET param == Head(required_model_params)
             type == GetParam(params, param).type
             next == IF ~HasParam(params, param)
                     THEN AddError(v, <<"Prompt '", prompt_name,
                                        "' missing required model parameter '", param, "'">>)
                     ELSE IF param = "max_tokens" /\ ~IsInstance(type, <<"int">>)
                     THEN AddError(v, <<"Prompt '", prompt_name, "' max_tokens must be an integer">>)
                     ELSE IF param = "temperature" /\ ~IsInstance(type, <<"int", "float">>)
                     THEN AddError(v, <<"Prompt '", prompt_name, "' temperature must be a number">>)
                     ELSE IF param = "model" /\ ~IsInstance(type, <<"str">>)
                     THEN AddError(v, <<"Prompt '", prompt_name, "' model must be a string">>)
                     ELSE v
         IN  CheckRequiredModelParams(next, prompt_name, params, Tail(required_model_params))

\* prompt_config.get('model_params', {})
ModelParamsOf(prompt_config) ==
    IF prompt_config.model_params.absent THEN ParamDict(<<>>) ELSE prompt_config.model_params

\* the model_params part of the loop body of _validate_prompts_structure, entered
\* with the outcome of the loop over the required fields
CheckModelParams(fields, prompt_name, model_params, required_model_params) ==
    IF fields.raised # "" THEN fields
    ELSE IF ~model_params.dict
    THEN AddError(fields, <<"Prompt '", prompt_name, "' model_params must be a dictionary">>)
    ELSE ValidateModelParameters(
             CheckRequiredModelParams(fields, prompt_name, model_params, required_model_params),
             prompt_name, model_params)

\* the loop body of _validate_prompts_structure for one prompt
ValidatePrompt(v, config_data, prompt) ==
    IF ~prompt.config.dict
    THEN AddError(v, <<"Prompt '", prompt.name, "' must be a dictionary">>)
    ELSE CheckModelParams(
             CheckRequiredFields(v, prompt.name, prompt.config,
                                 config_data.required_prompt_fields),
             prompt.name, ModelParamsOf(prompt.config), config_data.required_model_params)

\* _validate_prompts_structure
RECURSIVE ValidatePromptsStructure(_, _, _)
ValidatePromptsStructure(v, config_data, prompts) ==
    IF prompts = <<>> \/ v.raised # "" THEN v
    ELSE ValidatePromptsStructure(ValidatePrompt(v, config_data, Head(prompts)), config_data,
                                  Tail(prompts))

\* set(re.findall(r'\{(\w+)\}', context_template)): the names between an opening
\* brace and the closing brace that follows a run of word characters
TemplateVars(text) ==
    { SubSeq(text, m[1] + 1, m[2] - 1) :
        m \in { p \in (1..Len(text)) \X (1..Len(text)) :
                  /\ p[1] + 1 < p[2]
                  /\ text[p[1]] = "{"
                  /\ text[p[2]] = "}"
                  /\ \A j \in (p[1] + 1)..(p[2] - 1) : text[j] \in WordChars } }

\* _validate_template_variables; the message joins the invalid names in the
\* iteration order of a set, so the record keeps them as a set
RECURSIVE ValidateTemplateVariables(_, _)
ValidateTemplateVariables(v, prompts) ==
    IF prompts = <<>> THEN v
    ELSE LET prompt_name == Head(prompts).name
             prompt_config == Head(prompts).config
             context_template == prompt_config.context_template
             template_vars == TemplateVars(context_template)
             invalid_vars == template_vars \ ValidVars(prompt_name)
             checked ==
                 IF invalid_vars # {}
                 THEN [v EXCEPT !.errors = Append(@,
                         [text |-> <<"Prompt '", prompt_name,
                                     "' context_template contains invalid variables: ">>,
                          names |-> invalid_vars])]
                 ELSE v
             job == IF prompt_name \in TemplateSections /\ <<"j", "o", "b", "_", "c", "o", "n", "t", "e", "x", "t">> \notin template_vars
                    THEN AddWarning(checked, <<"Prompt '", prompt_name,
                                 "' context_template missing 'job_context' variable">>)
                    ELSE checked
             content == IF prompt_name \in TemplateSections /\ <<"c", "o", "n", "t", "e", "n", "t">> \notin template_vars
                        THEN AddWarning(job, <<"Prompt '", prompt_name,
                                     "' context_template missing 'content' variable">>)
                        ELSE job
             next == IF ~prompt_config.dict THEN v
                     ELSE IF context_template \in {Absent, None, <<>>} THEN v
                     ELSE content
         IN  ValidateTemplateVariables(next, Tail(prompts))

\* _validate_default_params
ValidateDefaultParams(v, config_data) ==
    LET default_params == IF config_data.default_params.absent THEN ParamDict(<<>>)
                          ELSE config_data.default_params
    IN  IF ~default_params.dict THEN AddError(v, <<"'default_params' must be a dictionary">>)
        ELSE ValidateModelParameters(v, "default_params", default_params)

\* a loaded configuration document: a dictionary with its five keys, or a value
\* that is no dictionary
ConfigData(required_sections, required_prompt_fields, required_model_params, prompts, default_params) ==
    [dict |-> TRUE, required_sections |-> required_sections,
     required_prompt_fields |-> required_prompt_fields,
     required_model_params |-> required_model_params,
     prompts |-> prompts, default_params |-> default_params]

NotAConfig ==
    [dict |-> FALSE, required_sections |-> <<>>, required_prompt_fields |-> <<>>,
     required_model_params |-> <<>>, prompts |-> <<>>, default_params |-> AbsentDict]

\* the return of validate: len(self.errors) == 0, when no exception escaped
Verdict(v) ==
    [errors |-> v.errors, warnings |-> v.warnings, raised |-> v.raised,
     valid |-> (v.raised = "" /\ v.errors = <<>>)]

\* lines of validate after _validate_prompts_structure
AfterStructure(structure, config_data) ==
    IF structure.raised # "" THEN structure
    ELSE ValidateDefaultParams(ValidateTemplateVariables(structure, config_data.prompts),
                               config_data)

\* lines of validate after the test that the document is a dictionary
ValidateDocument(v0, config_data) ==
    IF ~config_data.dict THEN AddError(v0, <<"Configuration must be a dictionary">>)
    ELSE AfterStructure(
             ValidatePromptsStructure(
                 ValidateRequiredSections(v0, config_data.required_sections, config_data.prompts),
                 config_data, config_data.prompts),
             config_data)

\* PromptValidator.validate: the errors, the warnings, the exception that escaped
\* and the value returned
ValidatorValidate(config_data) ==
    Verdict(ValidateDocument([errors |-> <<>>, warnings |-> <<>>, raised |-> ""], config_data))

\* PromptConfig
PromptConfig(system_prompt, context_template, model_params) ==
    [system_prompt |-> system_prompt, context_template |-> context_template,
     model_params |-> model_params]

\* _parse_prompts: self._prompts as far as it was filled, and the KeyError of a
\* missing field
RECURSIVE ParsePrompts(_, _)
ParsePrompts(parsed, prompts_data) ==
    IF prompts_data = <<>> THEN [prompts |-> parsed, raised |-> ""]
    ELSE LET prompt_data == Head(prompts_data).config
         IN  IF \/ prompt_data.system_prompt = Absent
                \/ prompt_data.context_template = Absent
                \/ prompt_data.model_params.absent
             THEN [prompts |-> parsed, raised |-> "KeyError"]
             ELSE ParsePrompts(
                      Append(parsed,
                             Prompt(Head(prompts_data).name,
                                    PromptConfig(prompt_data.system_prompt,
                                                 prompt_data.context_template,
                                                 prompt_data.model_params))),
                      Tail(prompts_data))

\* PromptLoader.load on a file that is missing, empty or holds a document: the
\* value returned and the fields of the loader
Loader(returned, prompts, default_params) ==
    [result |-> returned, prompts |-> prompts, default_params |-> default_params]

\* lines of load after _parse_prompts
AfterParse(parsed, config_data) ==
    IF parsed.raised # "" THEN Loader("False", SomeList(parsed.prompts), AbsentDict)
    ELSE Loader("True", SomeList(parsed.prompts),
                IF config_data.default_params.absent THEN ParamDict(<<>>)
                ELSE config_data.default_params)

Load(file, config_data) ==
    IF file \in {"missing", "empty"} THEN Loader("False", NoList, AbsentDict)
    ELSE IF ~ValidatorValidate(config_data).valid THEN Loader("False", NoList, AbsentDict)
    ELSE AfterParse(ParsePrompts(<<>>, config_data.prompts), config_data)

(***************************************************************************)
(* validate and load on prompt configurations.                             *)
(***************************************************************************)
OkParams ==
    ParamDict(<<Param("model", "str", 0), Param("max_tokens", "int", 1000),
                Param("temperature", "float", 5)>>)

\* max_tokens above the range, and an unknown parameter
LargeParams ==
    ParamDict(<<Param("model", "str", 0), Param("max_tokens", "int", 50000),
                Param("temperature", "int", 10), Param("seed", "int", 10)>>)

\* a temperature that is a text, and no model
TextParams ==
    ParamDict(<<Param("max_tokens", "int", 1000), Param("temperature", "str", 0)>>)

\* the prompt configurations of a section: well formed; blank, missing or null
\* system prompt; blank, missing or empty template; a variable of another
\* section; an unknown variable; a replacement field with an attribute; doubled
\* braces; parameters out of range, ill typed or missing; no dictionary
PromptConfigs ==
    { PromptDict(<<"s">>, <<"{", "j", "o", "b", "_", "c", "o", "n", "t", "e", "x", "t", "}", " ", "{", "c", "o", "n", "t", "e", "n", "t", "}">>, OkParams),
      PromptDict(<<" ">>, <<"{", "c", "o", "n", "t", "e", "n", "t", "}">>, OkParams),
      PromptDict(Absent, <<"{", "c", "o", "n", "t", "e", "n", "t", "}">>, OkParams),
      PromptDict(None, <<"{", "c", "o", "n", "t", "e", "n", "t", "}">>, OkParams),
      PromptDict(<<"s">>, <<" ">>, OkParams),
      PromptDict(<<"s">>, Absent, OkParams),
      PromptDict(<<"s">>, <<>>, OkParams),
      PromptDict(<<"s">>, <<"{", "f", "u", "l", "l", "_", "c", "o", "n", "t", "e", "x", "t", "}">>, OkParams),
      PromptDict(<<"s">>, <<"{", "b", "a", "d", "}", " ", "{", "c", "o", "n", "t", "e", "n", "t", "}">>, OkParams),
      PromptDict(<<"s">>, <<"{", "b", "a", "d", ".", "x", "}", "{", "c", "o", "n", "t", "e", "n", "t", "}">>, OkParams),
      PromptDict(<<"s">>, <<"{", "{", "c", "o", "n", "t", "e", "n", "t", "}", "}">>, OkParams),
      PromptDict(<<"s">>, <<"{", "c", "o", "n", "t", "e", "n", "t", "}">>, LargeParams),
      PromptDict(<<"s">>, <<"{", "c", "o", "n", "t", "e", "n", "t", "}">>, TextParams),
      PromptDict(<<"s">>, <<"{", "c", "o", "n", "t", "e", "n", "t", "}">>, AbsentDict),
      PromptDict(<<"s">>, <<"{", "c", "o", "n", "t", "e", "n", "t", "}">>, NotADict),
      NotAPrompt }

\* the prompts dictionary: empty, one section, or a summary section and another
PromptsData ==
    {<<>>}
    \cup {<<Prompt(n, c)>> : n \in {"summary", "experience", "other"}, c \in PromptConfigs}
    \cup {<<Prompt("summary", c), Prompt(n, d)>> :
            n \in {"experience", "other"}, c \in PromptConfigs, d \in PromptConfigs}

\* the lists of the document that say what is required: all absent, or all given
Requirements ==
    { [sections |-> <<>>, fields |-> <<>>, params |-> <<>>],
      [sections |-> <<"summary">>,
       fields |-> <<"system_prompt", "context_template", "model_params">>,
       params |-> <<"model", "max_tokens", "temperature">>] }

PromptsInit ==
    /\ EngineOff
    /\ fpc = "input"
    /\ \/ \E file \in {"missing", "empty"} : fin = [file |-> file, config_data |-> NotAConfig]
       \/ fin = [file |-> "present", config_data |-> NotAConfig]
       \/ \E r \in Requirements, prompts \in PromptsData, default_params \in {OkParams, AbsentDict} :
             fin = [file |-> "present",
                    config_data |-> ConfigData(r.sections, r.fields, r.params, prompts,
                                               default_params)]
    /\ fout = [validation |-> [errors |-> <<>>, warnings |-> <<>>, raised |-> "",
                               valid |-> FALSE],
               loader |-> Loader("", NoList, AbsentDict)]

\* PromptValidator(config_data).validate() on the document of the file
PromptValidate ==
    /\ fpc = "input"
    /\ fin.file = "present"
    /\ fout' = [fout EXCEPT !.validation = ValidatorValidate(fin.config_data)]
    /\ fpc' = "validated"
    /\ UNCHANGED fin
    /\ UNCHANGED engine_vars

\* PromptLoader(config_path).load()
PromptLoad ==
    /\ fpc \in {"input", "validated"}
    /\ fout' = [fout EXCEPT !.loader = Load(fin.file, fin.config_data)]
    /\ fpc' = "done"
    /\ UNCHANGED fin
    /\ UNCHANGED engine_vars

PromptsNext == PromptValidate \/ PromptLoad

SpecPrompts == PromptsInit /\ [][PromptsNext]_vars

\* the argument names of the replacement fields that str.format finds in a
\* template: doubled braces are literal text, a field runs from an opening brace
\* to the next closing brace, and its argument name ends at the first '.', '[',
\* '!' or ':'
RECURSIVE FormatFields(_)
FormatFields(text) ==
    IF text = <<>> THEN {}
    ELSE IF OccursAt(text, <<"{", "{">>, 1) \/ OccursAt(text, <<"}", "}">>, 1)
    THEN FormatFields(Drop(text, 2))
    ELSE IF Head(text) = "{"
    THEN LET close == Find(text, <<"}">>, 2)
             field == SubSeq(text, 2, close - 1)
             stops == {i \in 1..Len(field) : field[i] \in {".", "[", "!", ":"}}
             stop == IF stops = {} THEN Len(field) + 1
                     ELSE CHOOSE i \in stops : \A j \in stops : i <= j
         IN  IF close = 0 THEN {}
             ELSE {SubSeq(field, 1, stop - 1)} \cup FormatFields(Drop(text, close))
    ELSE FormatFields(Tail(text))

\* a name allowed in the template of a section
Allowed(section, name) ==
    section \in TemplateSections /\ name \in valid_template_variables(section)

\* C15: after load has returned true, every placeholder of the context
\* template of every loaded section, that is every replacement field that formatting
\* the template fills, belongs to the allow-list of the section.
C15_PlaceholdersAllowed ==
    (fpc = "done" /\ fout.loader.result = "True")
    => \A i \in 1..Len(fout.loader.prompts.value) :
          \A name \in FormatFields(fout.loader.prompts.value[i].config.context_template) :
              Allowed(fout.loader.prompts.value[i].name, name)

\* C16: loading fails for every document in which a section lacks a system prompt or
\* a context template or holds a blank one: validate records an error and load
\* returns false.
C16_BlankFieldsRejected ==
    (/\ fin.file = "present"
     /\ \E i \in 1..Len(fin.config_data.prompts) :
           LET config == fin.config_data.prompts[i].config
           IN  /\ config.dict
               /\ \/ config.system_prompt \in {Absent, None} \/ Blank(config.system_prompt)
                  \/ config.context_template \in {Absent, None} \/ Blank(config.context_template))
    => /\ fpc = "validated" => (fout.validation.raised # "" \/ fout.validation.errors # <<>>)
       /\ fpc = "done" => fout.loader.result = "False"

\* the rules of a record, each named by its kind and the positions it is about
RulesOf(r) ==
    {<<k, 0, 0>> : k \in {"name", "email", "phone", "address"}}
    \cup {<<k, i, 0>> : k \in {"company", "titles"}, i \in 1..Len(r.experiences)}
    \cup UNION {{<<k, i, j>> : k \in {"title name", "title start", "title end"},
                               j \in 1..Len(r.experiences[i].titles)} :
                i \in 1..Len(r.experiences)}
    \cup {<<k, i, 0>> : k \in {"school", "degrees"}, i \in 1..Len(r.education)}
    \cup UNION {{<<k, i, j>> : k \in {"degree names", "degree start", "degree end"},
                               j \in 1..Len(r.education[i].degrees)} :
                i \in 1..Len(r.education)}
    \cup {<<k, i, 0>> : k \in {"category", "skills"}, i \in 1..Len(r.skills)}
    \cup {<<k, i, 0>> : k \in {"project name", "project description"}, i \in 1..Len(r.projects)}
    \cup {<<k, i, 0>> : k \in {"research title", "research description"},
                        i \in 1..Len(r.research)}

\* whether the record violates a rule
Violates(r, v) ==
    LET k == v[1]
        i == v[2]
        j == v[3]
    IN  CASE k = "name" -> Blank(r.basic.name)
          [] k = "email" -> Blank(r.basic.contact.email)
          [] k = "phone" -> Blank(r.basic.contact.phone)
          [] k = "address" -> Len(r.basic.address) = 0
          [] k = "company" -> Blank(r.experiences[i].company)
          [] k = "titles" -> Len(r.experiences[i].titles) = 0
          [] k = "title name" -> Blank(r.experiences[i].titles[j].name)
          [] k = "title start" -> Blank(r.experiences[i].titles[j].startdate)
          [] k = "title end" -> Blank(r.experiences[i].titles[j].enddate)
          [] k = "school" -> Blank(r.education[i].school)
          [] k = "degrees" -> Len(r.education[i].degrees) = 0
          [] k = "degree names" -> Len(r.education[i].degrees[j].names) = 0
          [] k = "degree start" -> Blank(r.education[i].degrees[j].startdate)
          [] k = "degree end" -> Blank(r.education[i].degrees[j].enddate)
          [] k = "category" -> Blank(r.skills[i].category)
          [] k = "skills" -> Len(r.skills[i].skills) = 0
          [] k = "project name" -> Blank(r.projects[i].name)
          [] k = "project description" -> Blank(r.projects[i].description)
          [] k = "research title" -> Blank(r.research[i].title)
          [] k = "research description" -> Blank(r.research[i].description)

\* the message of a rule
MessageOf(v) ==
    LET k == v[1]
        i == IntText(v[2])
        j == IntText(v[3])
    IN  CASE k = "name" -> <<"Name is required">>
          [] k = "email" -> <<"Email is required">>
          [] k = "phone" -> <<"Phone is required">>
          [] k = "address" -> <<"Address is required">>
          [] k = "company" -> <<"Experience ">> \o i \o <<": Company name is required">>
          [] k = "titles" -> <<"Experience ">> \o i \o <<": At least one job title is required">>
          [] k = "title name" ->
                <<"Experience ">> \o i \o <<", Title ">> \o j \o <<": Job title name is required">>
          [] k = "title start" ->
                <<"Experience ">> \o i \o <<", Title ">> \o j \o <<": Start date is required">>
          [] k = "title end" ->
                <<"Experience ">> \o i \o <<", Title ">> \o j \o <<": End date is required">>
          [] k = "school" -> <<"Education ">> \o i \o <<": School name is required">>
          [] k = "degrees" -> <<"Education ">> \o i \o <<": At least one degree is required">>
          [] k = "degree names" ->
                <<"Education ">> \o i \o <<", Degree ">> \o j \o <<": Degree name is required">>
          [] k = "degree start" ->
                <<"Education ">> \o i \o <<", Degree ">> \o j \o <<": Start date is required">>
          [] k = "degree end" ->
                <<"Education ">> \o i \o <<", Degree ">> \o j \o <<": End date is required">>
          [] k = "category" -> <<"Skill category ">> \o i \o <<": Category name is required">>
          [] k = "skills" -> <<"Skill category ">> \o i \o <<": At least one skill is required">>
          [] k = "project name" -> <<"Project ">> \o i \o <<": Project name is required">>
          [] k = "project description" ->
                <<"Project ">> \o i \o <<": Project description is required">>
          [] k = "research title" -> <<"Research ">> \o i \o <<": Research title is required">>
          [] k = "research description" ->
                <<"Research ">> \o i \o <<": Research description is required">>

\* the record of the claim's example: empty name, empty email and a skill category
\* with zero skills
ThreeViolations(r) ==
    /\ r.basic.name = <<>>
    /\ r.basic.contact.email = <<>>
    /\ \E i \in 1..Len(r.skills) : r.skills[i].skills = <<>>

\* C17: validate reports every violation present: the messages are, without
\* repetition, the messages of the violated rules, one for each; a record with an
\* empty name, an empty email and a skill category without skills gets at least
\* three distinct messages; the list is empty exactly when no rule is violated.
C17_EveryViolationReported ==
    fpc = "validated"
    => LET r == fin.resume_data
           violated == {v \in RulesOf(r) : Violates(r, v)}
           messages == {fout.errors[n] : n \in 1..Len(fout.errors)}
       IN  /\ messages = {MessageOf(v) : v \in violated}
           /\ Len(fout.errors) = Cardinality(violated)
           /\ Cardinality(messages) = Len(fout.errors)
           /\ ThreeViolations(r) => Cardinality(messages) >= 3
           /\ (fout.errors = <<>>) <=> (violated = {})

\* C17 witness: validate has run on a record with an empty name, an empty email and a
\* skill category without skills, and has reported the three of them.
C17_Witness ==
    /\ fpc = "validated"
    /\ ThreeViolations(fin.resume_data)
    /\ \E a, b, c \in 1..Len(fout.errors) :
          /\ fout.errors[a] = <<"Name is required">>
          /\ fout.errors[b] = <<"Email is required">>
          /\ fout.errors[c] = <<"Skill category ", "1", ": At least one skill is required">>

\* C18: generate_latex called with a record whose validate() list is not empty fails
\* with LaTeXGenerationError and returns no rendered text.
C18_InvalidRecordNotRendered ==
    (fpc = "done" /\ Validate(fin.resume_data) # <<>>)
    => fout.raised = "LaTeXGenerationError"

(***************************************************************************)
(* One transport call: AIClient.customize_content_with_params or           *)
(* customize_content, with the attempts that session.post makes under the  *)
(* Retry strategy mounted by AIClient.__init__.  An event is what one      *)
(* attempt ends with: a response (status, Retry-After header, body) or a   *)
(* failure of the connection.                                              *)
(***************************************************************************)
\* a forcelist that holds 400 as well
status_forcelist_With400 == {400, 429, 500, 502, 503, 504}

\* status_forcelist of the Retry strategy
status_forcelist == {429, 500, 502, 503, 504}

\* the statuses for which Retry honours a Retry-After header
\* (respect_retry_after_header is left at its default)
RetryAfterStatuses == {413, 429, 503}

Event(kind, status, retry_after, body) ==
    [kind |-> kind, status |-> status, retry_after |-> retry_after, body |-> body]

NoEvent == Event("none", 0, FALSE, "")

\* the text of the first choice of a well-formed body
ChoiceText == <<" ", "h", "i", " ">>

\* the endings of one attempt: a 200 response whose body holds a choice, holds no
\* choice, is no JSON, or holds a choice without message; other statuses, 413 with and without a Retry-After header; a connection
\* that is refused, that times out, and a response that does not come in time
Events ==
    {Event("response", 200, FALSE, b) :
        b \in {"choice", "no_choices", "not_json", "no_message"}}
    \cup {Event("response", s, FALSE, "text") : s \in {400, 413, 429, 500, 502, 503, 504}}
    \cup {Event("response", 413, TRUE, "text")}
    \cup {Event(k, 0, FALSE, "") : k \in {"refused", "connect_timeout", "read_timeout"}}

\* Retry.is_retry for a POST, which allowed_methods holds: a status of the
\* forcelist, or, while total is not zero, a Retry-After header on a status
\* that honours it
IsRetry(e, total) ==
    \/ e.status \in status_forcelist
    \/ (total > 0 /\ e.retry_after /\ e.status \in RetryAfterStatuses)

\* what the attempts of session.post do with the ending of one attempt, given the
\* retries left: send again, return the response, or raise.  A retry takes one
\* from total; when none is left Retry raises MaxRetryError, which the adapter
\* turns into RetryError for responses, ConnectTimeout for a connection that
\* timed out and ConnectionError otherwise.
SessionPost(e, total) ==
    IF e.kind = "response"
    THEN IF IsRetry(e, total)
         THEN IF total > 0 THEN "retry" ELSE "RetryError"
         ELSE "response"
    ELSE IF total > 0 THEN "retry"
    ELSE IF e.kind = "connect_timeout" THEN "ConnectTimeout" ELSE "ConnectionError"

\* the classes an exception is an instance of, among those the handlers name
ExceptionClasses(name) ==
    CASE name = "ConnectTimeout" -> {"ConnectionError", "Timeout", "RequestException"}
      [] name = "ConnectionError" -> {"ConnectionError", "RequestException"}
      [] name = "RetryError" -> {"RequestException"}
      [] name = "requests.JSONDecodeError" -> {"RequestException", "JSONDecodeError", "ValueError"}
      [] name = "json.JSONDecodeError" -> {"JSONDecodeError", "ValueError"}
      [] name = "KeyError" -> {}

\* the except clause that catches an exception: the first one, in the order the
\* clauses are written, that names one of its classes
Caught(classes) ==
    IF "Timeout" \in classes THEN "timeout"
    ELSE IF "ConnectionError" \in classes THEN "connection"
    ELSE IF "RequestException" \in classes THEN "request"
    ELSE IF "JSONDecodeError" \in classes \/ "ValueError" \in classes THEN "json"
    ELSE "unexpected"

\* how the request ended for the code after session.post: the response, or the
\* clause that catches what session.post, response.json() or the indexing of the
\* body raised; own_json_error says whether response.json() raises the JSONDecodeError
\* of requests (a RequestException) or the one of the json module
Outcome(e, total, own_json_error) ==
    LET post == SessionPost(e, total)
    IN  IF post # "response" THEN ExceptionOutcome(Caught(ExceptionClasses(post)))
        ELSE IF e.status # 200 THEN HttpOutcome(e.status, FALSE, <<>>)
        ELSE IF e.body = "not_json"
        THEN ExceptionOutcome(Caught(ExceptionClasses(
                 IF own_json_error THEN "requests.JSONDecodeError" ELSE "json.JSONDecodeError")))
        ELSE IF e.body = "no_message" THEN ExceptionOutcome(Caught(ExceptionClasses("KeyError")))
        ELSE HttpOutcome(200, e.body = "choice", IF e.body = "choice" THEN ChoiceText ELSE <<>>)

\* AIClient.customize_content, given how the request ended
CustomizeContent(o) ==
    IF o.kind = "http" THEN
        IF o.status = 200 THEN
            IF o.choices
            THEN AIResponse(TRUE, Strip(o.raw), "none", 0)
            ELSE AIResponse(FALSE, <<>>, "invalid_format", o.status)
        ELSE AIResponse(FALSE, <<>>, "status", o.status)
    ELSE IF o.kind = "timeout" THEN AIResponse(FALSE, <<>>, "timeout", 0)
    ELSE IF o.kind = "connection" THEN AIResponse(FALSE, <<>>, "connection", 0)
    ELSE IF o.kind = "request" THEN AIResponse(FALSE, <<>>, "request", 0)
    ELSE IF o.kind = "json" THEN AIResponse(FALSE, <<>>, "json", 0)
    ELSE AIResponse(FALSE, <<>>, "unexpected", 0)

\* no AIResponse yet
Pending == AIResponse(FALSE, <<>>, "pending", 0)

TransportInit ==
    /\ EngineOff
    /\ fpc = "sending"
    /\ \E max_retries \in 0..MaxRetries, own_json_error \in BOOLEAN,
          method \in {"customize_content_with_params", "customize_content"} :
          fin = [max_retries |-> max_retries, method |-> method,
                 own_json_error |-> own_json_error]
    /\ fout = [attempts |-> 0, total |-> fin.max_retries, last |-> NoEvent,
               response |-> Pending]

\* an attempt of session.post ends and the request is sent again
SendAgain ==
    /\ fpc = "sending"
    /\ \E e \in Events :
          /\ SessionPost(e, fout.total) = "retry"
          /\ fout' = [fout EXCEPT !.attempts = @ + 1, !.total = @ - 1, !.last = e]
    /\ UNCHANGED <<fpc, fin>>
    /\ UNCHANGED engine_vars

\* the last attempt of session.post ends and the method returns its AIResponse
ReturnResponse ==
    /\ fpc = "sending"
    /\ \E e \in Events :
          /\ SessionPost(e, fout.total) # "retry"
          /\ LET o == Outcome(e, fout.total, fin.own_json_error)
             IN  fout' = [fout EXCEPT
                            !.attempts = @ + 1, !.last = e,
                            !.response = IF fin.method = "customize_content"
                                         THEN CustomizeContent(o)
                                         ELSE CustomizeContentWithParams(o)]
    /\ fpc' = "done"
    /\ UNCHANGED fin
    /\ UNCHANGED engine_vars

TransportNext == SendAgain \/ ReturnResponse

SpecTransport == TransportInit /\ [][TransportNext]_vars

\* every attempt ends: the endpoint answers, the connection fails, or the timeout
\* given to session.post expires
SpecTransportFair == SpecTransport /\ WF_vars(TransportNext)

\* the kind of failure the claim names for the ending of the last attempt
FailureKind(e) ==
    CASE e.kind \in {"connect_timeout", "read_timeout"} -> "timeout"
      [] e.kind = "refused" -> "connection"
      [] e.kind = "response" /\ e.status # 200 -> "status"
      [] e.kind = "response" /\ e.status = 200 /\ e.body = "no_choices" -> "invalid_format"
      [] e.kind = "response" /\ e.status = 200 /\ e.body = "not_json" -> "json"
      [] OTHER -> "other"

\* C19: the two methods end with an AIResponse: success only for a 200 response that
\* holds a choice; every failure has success false, empty content and an error message
\* that names its kind (timeout, connection failure, non-200 status, response without
\* choices, unparsable JSON); status_code only when a response was received.
C19_FailuresIdentified ==
    fpc = "done"
    => LET e == fout.last
           r == fout.response
       IN  /\ r.success => (e.kind = "response" /\ e.status = 200 /\ e.body = "choice")
           /\ ~r.success => (r.content = <<>> /\ r.error_message \notin {"none", "pending"})
           /\ (~r.success /\ FailureKind(e) # "other") => r.error_message = FailureKind(e)
           /\ r.status_code # 0 => e.kind = "response"

\* the statuses that are sent again: those of the forcelist and, while retries are
\* left, 413 with a Retry-After header
ClaimedStatuses == {429, 500, 502, 503, 504}

RetriedEvents(allowed) ==
    /\ (fpc = "sending" /\ fout.attempts > 0 /\ fout.last.kind = "response")
       => (fout.last.status \in ClaimedStatuses \/ allowed)
    /\ (fpc = "done" /\ fout.last.kind = "response" /\ fout.last.status \in ClaimedStatuses)
       => fout.attempts = fin.max_retries + 1

\* the attempts of one call are bounded and a status that is not retried is reported
\* after the attempt that met it
BoundedAttempts ==
    /\ fout.attempts <= fin.max_retries + 1
    /\ fout.total = fin.max_retries - fout.attempts + (IF fpc = "done" THEN 1 ELSE 0)
    /\ (fpc = "done" /\ fout.last.kind = "response" /\ fout.last.status = 400)
       => fout.response = AIResponse(FALSE, <<>>, "status", 400)
    /\ (fpc = "sending" /\ fout.attempts > 0) => fout.last.status # 400

\* C20 (as stated): within one call a response with status 429, 500, 502, 503 or 504
\* is sent again and no other status is; the attempts never exceed max_retries + 1;
\* every call ends with an AIResponse; 400 is reported after a single attempt.
C20_OnlyForcelistRetried ==
    /\ [](RetriedEvents(FALSE) /\ BoundedAttempts)
    /\ <>(fpc = "done" /\ fout.response # Pending)

\* C20 (amended): within one call a response with status 429, 500, 502, 503 or 504 is
\* sent again while retries are left, and of the other statuses only 413 with a
\* Retry-After header is; the attempts never exceed max_retries + 1; every call ends
\* with an AIResponse; 400 is reported by the attempt that met it.
C20_BoundedRetries ==
    /\ [](RetriedEvents(fout.last.status = 413 /\ fout.last.retry_after) /\ BoundedAttempts)
    /\ <>(fpc = "done" /\ fout.response # Pending)

\* C20 witness: a call with the default number of retries that met a status of the
\* forcelist at each of its four attempts and has returned.
C20_Witness ==
    /\ fpc = "done"
    /\ fin.max_retries = DefaultMaxRetries
    /\ fout.attempts = DefaultMaxRetries + 1
    /\ fout.last.status \in ClaimedStatuses
    /\ fout.response.error_message = "request"


(***************************************************************************)
(* _parse_skills_response on a response made of header lines, skill lines  *)
(* and other lines, and what adjust_skills keeps of it.                    *)
(***************************************************************************)
MaxSkillLines == 4

\* the lines of a skills response: headers (plain, padded, without label), skill
\* lines in the three accepted forms, a line of neither kind, a line that starts
\* with "-" and ends with ":"
SkillResponseLines ==
    {<<"A", ":">>, <<" ", "b", " ", ":">>, <<":">>, <<"-", " ", "x">>, <<Bullet>> \o <<" ", "y">>, <<" ", " ", "-", " ", "z">>, <<"w">>, <<"-", "v", ":">>}

\* the skills the record holds before the call
ScenarioSkills == <<SkillCategory(<<"o">>, <<<<"p">>>>)>>

SkillLinesInit ==
    /\ EngineOff
    /\ fpc = "input"
    /\ \E lines \in SeqsUpTo(SkillResponseLines, MaxSkillLines) :
          fin = [lines |-> lines, content |-> Join(lines, T_NL), skills |-> ScenarioSkills]
    /\ fout = <<>>

\* adjust_skills lines 222-231 on a successful response with this content
ParseSkillLines ==
    /\ fpc = "input"
    /\ fout' = [parsed |-> ParseSkillsResponse(fin.content),
                skills |-> SkillsAfter(fin.skills, AIResponse(TRUE, fin.content, <<>>, 200))]
    /\ fpc' = "done"
    /\ UNCHANGED fin
    /\ UNCHANGED engine_vars

SkillLinesNext == ParseSkillLines

SpecSkillLines == SkillLinesInit /\ [][SkillLinesNext]_vars

\* a line ending in ":" that does not start with "-"
IsHeaderLine(line) == EndsWith(line, T_Colon) /\ ~StartsWith(line, T_Dash)

\* a line with one of the prefixes "- ", bullet and blank, or indented "- "
IsSkillLine(line) ==
    \/ StartsWith(line, T_DashSpace)
    \/ StartsWith(line, T_Bullet)
    \/ StartsWith(line, T_IndentDash)

\* the skill of a skill line: the prefix removed, then trimmed
SkillOfLine(line) ==
    IF StartsWith(line, T_IndentDash) THEN Strip(Drop(line, 4)) ELSE Strip(Drop(line, 2))

\* the positions of the header lines of the response
HeaderLines == {n \in DOMAIN fin.lines : IsHeaderLine(fin.lines[n])}

\* the positions of the skill lines that follow header h before the next header
SkillLinesOf(h) ==
    {n \in DOMAIN fin.lines :
        /\ n > h
        /\ ~IsHeaderLine(fin.lines[n])
        /\ IsSkillLine(fin.lines[n])
        /\ \A k \in HeaderLines : ~(h < k /\ k < n)}

\* the category the claim gives for header h
CategoryOf(h) ==
    SkillCategory(Strip(SubSeq(fin.lines[h], 1, Len(fin.lines[h]) - 1)),
                  Pick(SkillLinesOf(h), [n \in DOMAIN fin.lines |-> SkillOfLine(fin.lines[n])]))

FilledHeaderLines ==
    {h \in HeaderLines : CategoryOf(h).category # <<>> /\ SkillLinesOf(h) # {}}

ProjectResponseLines == [n \in DOMAIN Split(fin.content, "\n") |-> Strip(Split(fin.content, "\n")[n])]

\* a line "Project <N>:" with N a number
IsProjectNumberLine(line) ==
    /\ StartsWith(line, T_Project)
    /\ EndsWith(line, T_Colon)
    /\ IsIntLiteral(SubSeq(line, Len(T_Project) + 1, Len(line) - 1))

\* the N of a line "Project <N>:"
ProjectNumber(line) == IntValue(SubSeq(line, Len(T_Project) + 1, Len(line) - 1))

\* the project number in force at line n: the N of the most recent "Project <N>:" line
\* before it, 0 when none came before
NumberInForce(n) ==
    LET before == {k \in 1..(n - 1) : IsProjectNumberLine(ProjectResponseLines[k])}
    IN  IF before = {} THEN 0
        ELSE ProjectNumber(ProjectResponseLines[CHOOSE k \in before : \A j \in before : j <= k])

\* the text of a "Description:" line
DescriptionText(line) == Strip(Drop(line, Len(T_Description)))

\* the "Description:" lines that address project i (counted from 1)
DescriptionLinesFor(i) ==
    {n \in DOMAIN ProjectResponseLines :
        /\ StartsWith(ProjectResponseLines[n], T_Description)
        /\ NumberInForce(n) = i}

\* the description the response leaves in project i when each line in the set writes
\* its text
DescriptionAfter(i, writers) ==
    IF writers = {} THEN fin.projects[i].description
    ELSE DescriptionText(ProjectResponseLines[CHOOSE n \in writers : \A k \in writers : k <= n])

\* C23 as claimed: every "Description:" line writes the description of project N-1
\* (0-based), N the number of the most recent "Project <N>:" line before it, and of no
\* other project; a line with no such line before it, or with N-1 outside the list,
\* writes nothing; no error is raised.
C23_EveryDescriptionLineWrites ==
    fpc = "done" =>
        /\ Len(fout.refs) = Len(fin.projects)
        /\ \A i \in 1..Len(fin.projects) :
              fout.heap[fout.refs[i]].description = DescriptionAfter(i, DescriptionLinesFor(i))

\* C23 as amended: a "Description:" line with a non-empty text after the prefix writes
\* that text as the description of project N-1 (0-based), N the number of the most
\* recent "Project <N>:" line before it, and of no other project; a "Description:"
\* line without text, one with no "Project <N>:" line before it, and one with N-1
\* outside the list write nothing; no error is raised.
C23_DescriptionLineWithTextWrites ==
    fpc = "done" =>
        /\ Len(fout.refs) = Len(fin.projects)
        /\ \A i \in 1..Len(fin.projects) :
              fout.heap[fout.refs[i]].description =
                  DescriptionAfter(i, {n \in DescriptionLinesFor(i) :
                                          DescriptionText(ProjectResponseLines[n]) # <<>>})

\* "Description: e", "Project 2:", "Description: e" on two projects: the first line
\* wrote nothing, the last one wrote the second project
C23_Witness ==
    /\ fpc = "done"
    /\ Len(fin.projects) = 2
    /\ fin.content = Join(<<T_Description \o <<" ", "e">>, T_Project \o <<"2", ":">>,
                            T_Description \o <<" ", "e">>>>, T_NL)
    /\ fout.heap[fout.refs[1]].description = fin.projects[1].description
    /\ fout.heap[fout.refs[2]].description = <<"e">>
    /\ fin.projects[2].description # <<"e">>


(***************************************************************************)
(* DynamicTemplateEngine.render_template: the order of the three stages,   *)
(* on templates in which the constructs are nested.                        *)
(***************************************************************************)
\* the stages of render_template in the order of lines 44-46
StageOrder == <<"loops", "conditionals", "variables">>

\* the warnings _process_variables prints (line 232), in order: the names of the
\* placeholders it looks up and does not find, from position i on
RECURSIVE VariableWarnings(_, _, _)
VariableWarnings(s, i, data_dict) ==
    LET hits == {j \in i..Len(s) : MatchVariable(s, j).ok}
    IN  IF hits = {} THEN <<>>
        ELSE LET j == CHOOSE h \in hits : \A k \in hits : h <= k
             IN  (IF MatchVariable(s, j).var_name \in DOMAIN data_dict THEN <<>>
                  ELSE <<MatchVariable(s, j).var_name>>)
                 \o VariableWarnings(s, MatchVariable(s, j).last + 1, data_dict)

\* one stage applied to the whole text rendered so far
ApplyStage(stage, rendered, data_dict) ==
    IF stage = "loops"
    THEN [rendered EXCEPT !.text = ProcessLoops(@, data_dict)]
    ELSE IF stage = "conditionals"
    THEN [rendered EXCEPT !.text = ProcessConditionals(@, data_dict)]
    ELSE [rendered EXCEPT !.text = ProcessVariables(@, data_dict),
                          !.warnings = @ \o VariableWarnings(rendered.text, 1, data_dict)]

\* a wrapper of a nested construct: a conditional block on a name, or a loop over a
\* collection whose body starts with the literal "B"
Wrapper(kind, name) == [kind |-> kind, name |-> name]

\* conditions: a text (true), None (false), a name the context lacks (false)
IfWrappers == {Wrapper("if", n) : n \in {<<"s">>, <<"n">>, <<"z", "z">>}}

\* collections: a list of two scalars, an empty list, a name the context lacks
ForWrappers == {Wrapper("for", n) : n \in {<<"x", "s">>, <<"e">>, <<"z", "z">>}}

\* no wrapper, one, or a conditional and a loop inside one another
Wrappings ==
    {<<>>} \cup {<<w>> : w \in IfWrappers \cup ForWrappers}
    \cup {<<w, v>> : w \in IfWrappers, v \in ForWrappers}
    \cup {<<w, v>> : w \in ForWrappers, v \in IfWrappers}

\* what the wrappers enclose: a literal, or a context-level placeholder of a text, of
\* None, or of a name the context lacks
Leaves == {[var |-> FALSE, name |-> <<"A">>], [var |-> TRUE, name |-> <<"s">>],
           [var |-> TRUE, name |-> <<"n">>], [var |-> TRUE, name |-> <<"z", "z">>]}

LeafText(leaf) == IF leaf.var THEN T_Open3 \o leaf.name \o T_Close3 ELSE leaf.name

\* the template text of a nested construct
RECURSIVE NestedText(_, _)
NestedText(wraps, leaf) ==
    IF wraps = <<>> THEN LeafText(leaf)
    ELSE IF Head(wraps).kind = "if"
    THEN T_IfOpen \o Head(wraps).name \o T_TagClose \o NestedText(Tail(wraps), leaf) \o T_EndIf
    ELSE T_ForOpen \o <<"i">> \o T_In \o Head(wraps).name \o T_TagClose
         \o <<"B">> \o NestedText(Tail(wraps), leaf) \o T_EndFor

\* a template: a nested construct, alone or after a plain leaf
OrderInit ==
    /\ EngineOff
    /\ fpc = "render"
    /\ \E first \in SeqsUpTo(Leaves, 1), wraps \in Wrappings, leaf \in Leaves :
          fin = [first |-> first, wraps |-> wraps, leaf |-> leaf,
                 data_dict |-> StageContext,
                 template_content |->
                     Concat([i \in 1..Len(first) |-> LeafText(first[i])])
                     \o NestedText(wraps, leaf)]
    /\ fout = [text |-> fin.template_content, warnings |-> <<>>, stage |-> 0]

\* render_template lines 44-46, one stage at a time
RenderStage ==
    /\ fpc = "render"
    /\ fout' = [ApplyStage(StageOrder[fout.stage + 1], fout, fin.data_dict)
                   EXCEPT !.stage = fout.stage + 1]
    /\ fpc' = IF fout.stage + 1 = Len(StageOrder) THEN "done" ELSE "render"
    /\ UNCHANGED fin
    /\ UNCHANGED engine_vars

OrderNext == RenderStage

SpecOrder == OrderInit /\ [][OrderNext]_vars

\* what a placeholder becomes when it is looked up, and the warning of the lookup
LookedUp(leaf, data_dict) ==
    IF ~leaf.var THEN [text |-> leaf.name, warnings |-> <<>>]
    ELSE IF leaf.name \notin DOMAIN data_dict
    THEN [text |-> <<"[">> \o leaf.name \o <<"]">>, warnings |-> <<leaf.name>>]
    ELSE IF data_dict[leaf.name].type = "NoneType" THEN [text |-> <<>>, warnings |-> <<>>]
    ELSE [text |-> PyStr(data_dict[leaf.name]), warnings |-> <<>>]

\* the number of iterations of a loop over the named collection
Iterations(name, data_dict) ==
    IF name \in DOMAIN data_dict /\ data_dict[name].type = "list"
    THEN Len(data_dict[name].items) ELSE 0

\* what the fixed order gives for a nested construct: a pruned block gives nothing and
\* looks nothing up, a kept block gives its content, a loop gives its body once per
\* element, joined by line ends, each copy with its placeholder looked up
RECURSIVE Ordered(_, _, _)
Ordered(wraps, leaf, data_dict) ==
    IF wraps = <<>> THEN LookedUp(leaf, data_dict)
    ELSE IF Head(wraps).kind = "if"
    THEN (IF ConditionHolds(data_dict, Head(wraps).name)
          THEN Ordered(Tail(wraps), leaf, data_dict)
          ELSE [text |-> <<>>, warnings |-> <<>>])
    ELSE [text |-> Join([n \in 1..Iterations(Head(wraps).name, data_dict) |->
                            <<"B">> \o Ordered(Tail(wraps), leaf, data_dict).text], T_NL),
          warnings |-> Concat([n \in 1..Iterations(Head(wraps).name, data_dict) |->
                                  Ordered(Tail(wraps), leaf, data_dict).warnings])]

\* C24: the stages run in the order loops, conditionals, variables, each on the whole
\* output of the previous one: a placeholder inside a pruned conditional block is
\* never looked up (no "[name]" token, no warning), and a context-level placeholder
\* inside a loop body is looked up once per iteration, after the expansion.
C24_LoopsConditionalsVariables ==
    /\ fout.stage \in 0..Len(StageOrder)
    /\ fout.stage < Len(StageOrder) => fout.warnings = <<>>
    /\ fout.stage >= 1 => ~ContainsText(fout.text, T_ForOpen)
    /\ fout.stage >= 2 => ~ContainsText(fout.text, T_IfOpen)
    /\ fpc = "done" =>
          /\ fout.text = Concat([i \in 1..Len(fin.first) |->
                                    LookedUp(fin.first[i], fin.data_dict).text])
                         \o Ordered(fin.wraps, fin.leaf, fin.data_dict).text
          /\ fout.warnings = Concat([i \in 1..Len(fin.first) |->
                                        LookedUp(fin.first[i], fin.data_dict).warnings])
                             \o Ordered(fin.wraps, fin.leaf, fin.data_dict).warnings

\* "{{{zz}}}" followed by a pruned block around a loop with "{{{zz}}}" in its body:
\* one token and one warning, from the placeholder outside the block
C24_Witness ==
    /\ fpc = "done"
    /\ fin.first = <<[var |-> TRUE, name |-> <<"z", "z">>]>>
    /\ fin.wraps = <<Wrapper("if", <<"n">>), Wrapper("for", <<"x", "s">>)>>
    /\ fin.leaf = [var |-> TRUE, name |-> <<"z", "z">>]
    /\ fout.text = <<"[", "z", "z", "]">>
    /\ fout.warnings = <<<<"z", "z">>>>


(***************************************************************************)
(* ContextBuilder (ai/context_builder.py): the texts a prompt context is   *)
(* made of.  The builder holds one field, resume_data, None until          *)
(* set_resume_data is called.                                              *)
(***************************************************************************)
JobProfile(title, company, description, requirements, preferred_skills, industry, experience_level) ==
    [title |-> title, company |-> company, description |-> description,
     requirements |-> requirements, preferred_skills |-> preferred_skills,
     industry |-> industry, experience_level |-> experience_level]

\* ContextBuilder.__init__: self.resume_data = None
NoResume == [none |-> TRUE, value |-> <<>>]

\* ContextBuilder.set_resume_data(resume_data)
SetResumeData(r) == [none |-> FALSE, value |-> r]

\* l[:n]
Take(l, n) == SubSeq(l, 1, IF Len(l) < n THEN Len(l) ELSE n)

\* the entries of l whose position is in keep, in order
Keep(l, keep) == Pick(keep, l)

\* a text cut after n characters with "..." appended when it is longer
Truncated(text, n) == IF Len(text) > n THEN SubSeq(text, 1, n) \o <<".", ".", ".">> ELSE text

\* " and N more" after the first n entries of a list
AndMore(l, n) == IF Len(l) > n THEN <<" ", "a", "n", "d", " ">> \o IntText(Len(l) - n) \o <<" ", "m", "o", "r", "e">> ELSE <<>>

\* build_experiences_summary, lines 47-55: the latest title at the company
TitleInfo(exp) ==
    IF exp.titles # <<>>
    THEN exp.titles[Len(exp.titles)].name \o <<" ", "a", "t", " ">> \o exp.company
         \o (IF Truthy(exp.titles[Len(exp.titles)].startdate)
                /\ Truthy(exp.titles[Len(exp.titles)].enddate)
             THEN <<" ", "(">> \o exp.titles[Len(exp.titles)].startdate \o <<" ", "-", " ">>
                  \o exp.titles[Len(exp.titles)].enddate \o <<")">>
             ELSE <<>>)
    ELSE <<"P", "o", "s", "i", "t", "i", "o", "n", " ", "a", "t", " ">> \o exp.company

\* build_experiences_summary
BuildExperiencesSummary(cb) ==
    IF cb.none \/ cb.value.experiences = <<>> THEN <<"N", "o", " ", "p", "r", "o", "f", "e", "s", "s", "i", "o", "n", "a", "l", " ", "e", "x", "p", "e", "r", "i", "e", "n", "c", "e", " ", "l", "i", "s", "t", "e", "d">>
    ELSE Join([i \in 1..Len(cb.value.experiences) |->
                  TitleInfo(cb.value.experiences[i])
                  \o (IF cb.value.experiences[i].highlights # <<>>
                      THEN <<":", " ">> \o Join(Take(cb.value.experiences[i].highlights, 3), <<";", " ">>)
                      ELSE <<>>)],
              <<" ", "|", " ">>)

\* build_projects_summary, lines 82-101: one project
ProjectInfo(project) ==
    project.name
    \o (IF Truthy(project.subtitle) THEN <<" ", "(">> \o project.subtitle \o <<")">> ELSE <<>>)
    \o (IF project.technologies # <<>>
        THEN <<" ", "-", " ", "T", "e", "c", "h", "n", "o", "l", "o", "g", "i", "e", "s", ":", " ">> \o Join(Take(project.technologies, 3), <<",", " ">>)
             \o AndMore(project.technologies, 3)
        ELSE <<>>)
    \o (IF Truthy(project.description) THEN <<" ", "-", " ">> \o Truncated(project.description, 100)
        ELSE <<>>)

\* build_projects_summary
BuildProjectsSummary(cb) ==
    IF cb.none \/ cb.value.projects = <<>> THEN <<"N", "o", " ", "p", "r", "o", "j", "e", "c", "t", "s", " ", "l", "i", "s", "t", "e", "d">>
    ELSE Join([i \in 1..Len(cb.value.projects) |-> ProjectInfo(cb.value.projects[i])], <<" ", "|", " ">>)

\* build_skills_summary
BuildSkillsSummary(cb) ==
    IF cb.none \/ cb.value.skills = <<>> THEN <<"N", "o", " ", "s", "k", "i", "l", "l", "s", " ", "l", "i", "s", "t", "e", "d">>
    ELSE Join([i \in 1..Len(cb.value.skills) |->
                  cb.value.skills[i].category \o <<":", " ">>
                  \o Join(Take(cb.value.skills[i].skills, 5), <<",", " ">>)
                  \o AndMore(cb.value.skills[i].skills, 5)],
              <<" ", "|", " ">>)

\* build_research_summary, lines 145-161: one entry
ResearchInfo(research) ==
    research.title
    \o (IF Truthy(research.publication_date)
        THEN <<" ", "(">> \o research.publication_date \o <<")">> ELSE <<>>)
    \o (IF Truthy(research.description) THEN <<" ", "-", " ">> \o Truncated(research.description, 80)
        ELSE <<>>)
    \o (IF research.keywords # <<>>
        THEN <<" ", "-", " ", "K", "e", "y", "w", "o", "r", "d", "s", ":", " ">> \o Join(Take(research.keywords, 3), <<",", " ">>) ELSE <<>>)

\* build_research_summary
BuildResearchSummary(cb) ==
    IF cb.none \/ cb.value.research = <<>> THEN <<"N", "o", " ", "r", "e", "s", "e", "a", "r", "c", "h", " ", "e", "x", "p", "e", "r", "i", "e", "n", "c", "e", " ", "l", "i", "s", "t", "e", "d">>
    ELSE Join([i \in 1..Len(cb.value.research) |-> ResearchInfo(cb.value.research[i])], <<" ", "|", " ">>)

\* build_education_summary, lines 177-189: one school with the names of its degrees
EducationInfo(edu) ==
    edu.school
    \o (IF Concat([d \in 1..Len(edu.degrees) |-> edu.degrees[d].names]) # <<>>
        THEN <<" ", "-", " ">> \o Join(Concat([d \in 1..Len(edu.degrees) |-> edu.degrees[d].names]), <<",", " ">>)
        ELSE <<>>)

\* build_education_summary
BuildEducationSummary(cb) ==
    IF cb.none \/ cb.value.education = <<>> THEN <<"N", "o", " ", "e", "d", "u", "c", "a", "t", "i", "o", "n", " ", "l", "i", "s", "t", "e", "d">>
    ELSE Join([i \in 1..Len(cb.value.education) |-> EducationInfo(cb.value.education[i])], <<" ", "|", " ">>)

\* build_full_user_context
BuildFullUserContext(cb) ==
    IF cb.none THEN <<"N", "o", " ", "r", "e", "s", "u", "m", "e", " ", "d", "a", "t", "a", " ", "a", "v", "a", "i", "l", "a", "b", "l", "e">>
    ELSE Join(<<<<"N", "a", "m", "e", ":", " ">> \o cb.value.basic.name,
                <<"E", "d", "u", "c", "a", "t", "i", "o", "n", ":", " ">> \o BuildEducationSummary(cb),
                <<"E", "x", "p", "e", "r", "i", "e", "n", "c", "e", ":", " ">> \o BuildExperiencesSummary(cb),
                <<"P", "r", "o", "j", "e", "c", "t", "s", ":", " ">> \o BuildProjectsSummary(cb),
                <<"S", "k", "i", "l", "l", "s", ":", " ">> \o BuildSkillsSummary(cb)>>
              \o (IF cb.value.research # <<>>
                  THEN <<<<"R", "e", "s", "e", "a", "r", "c", "h", ":", " ">> \o BuildResearchSummary(cb)>> ELSE <<>>)
              \o (IF Truthy(cb.value.summary)
                  THEN <<<<"C", "u", "r", "r", "e", "n", "t", " ", "S", "u", "m", "m", "a", "r", "y", ":", " ">> \o cb.value.summary>> ELSE <<>>),
              T_NL)

\* the entries of a list of texts that no earlier entry equals once both are changed
\* by f (the first of each kind, in order)
FirstOfEach(l, f) ==
    Keep(l, {i \in 1..Len(l) : \A j \in 1..(i - 1) : f[j] # f[i]})

\* extract_target_skills_from_job
ExtractTargetSkillsFromJob(job_profile) ==
    IF job_profile.requirements \o job_profile.preferred_skills = <<>>
    THEN <<"N", "o", " ", "s", "p", "e", "c", "i", "f", "i", "c", " ", "s", "k", "i", "l", "l", "s", " ", "m", "e", "n", "t", "i", "o", "n", "e", "d", " ", "i", "n", " ", "j", "o", "b", " ", "p", "o", "s", "t", "i", "n", "g">>
    ELSE Join(FirstOfEach(job_profile.requirements \o job_profile.preferred_skills,
                          [i \in 1..Len(job_profile.requirements \o job_profile.preferred_skills) |->
                              Lower((job_profile.requirements \o job_profile.preferred_skills)[i])]),
              <<",", " ">>)

\* build_job_context
BuildJobContext(job_profile) ==
    Join(<<<<"J", "o", "b", " ", "T", "i", "t", "l", "e", ":", " ">> \o job_profile.title,
           <<"C", "o", "m", "p", "a", "n", "y", ":", " ">> \o job_profile.company,
           <<"D", "e", "s", "c", "r", "i", "p", "t", "i", "o", "n", ":", " ">> \o job_profile.description>>
         \o (IF job_profile.requirements # <<>>
             THEN <<<<"R", "e", "q", "u", "i", "r", "e", "m", "e", "n", "t", "s", ":", " ">> \o Join(job_profile.requirements, <<",", " ">>)>> ELSE <<>>)
         \o (IF job_profile.preferred_skills # <<>>
             THEN <<<<"P", "r", "e", "f", "e", "r", "r", "e", "d", " ", "S", "k", "i", "l", "l", "s", ":", " ">> \o Join(job_profile.preferred_skills, <<",", " ">>)>>
             ELSE <<>>)
         \o (IF job_profile.industry # <<>>
             THEN <<<<"I", "n", "d", "u", "s", "t", "r", "y", ":", " ">> \o job_profile.industry>> ELSE <<>>)
         \o (IF job_profile.experience_level # <<>>
             THEN <<<<"E", "x", "p", "e", "r", "i", "e", "n", "c", "e", " ", "L", "e", "v", "e", "l", ":", " ">> \o job_profile.experience_level>> ELSE <<>>),
         T_NL)

\* any(keyword in text for keyword in keywords)
AnyIn(keywords, text) == \E k \in 1..Len(keywords) : ContainsText(text, keywords[k])

\* sum(len(exp.highlights) for exp in experiences)
RECURSIVE TotalHighlights(_)
TotalHighlights(experiences) ==
    IF experiences = <<>> THEN 0
    ELSE Len(Head(experiences).highlights) + TotalHighlights(Tail(experiences))

senior_indicators ==
    <<<<"s", "e", "n", "i", "o", "r">>, <<"l", "e", "a", "d">>, <<"p", "r", "i", "n", "c", "i", "p", "a", "l">>, <<"a", "r", "c", "h", "i", "t", "e", "c", "t">>, <<"m", "a", "n", "a", "g", "e", "r">>, <<"d", "i", "r", "e", "c", "t", "o", "r">>>>

\* _infer_experience_level
InferExperienceLevel(cb) ==
    IF cb.none \/ cb.value.experiences = <<>> THEN <<"E", "n", "t", "r", "y", " ", "l", "e", "v", "e", "l">>
    ELSE IF \/ (Len(cb.value.experiences) >= 2 /\ TotalHighlights(cb.value.experiences) >= 6)
            \/ \E e \in 1..Len(cb.value.experiences) :
                  \E t \in 1..Len(cb.value.experiences[e].titles) :
                      AnyIn(senior_indicators, Lower(cb.value.experiences[e].titles[t].name))
    THEN <<"S", "e", "n", "i", "o", "r", " ", "l", "e", "v", "e", "l">>
    ELSE IF Len(cb.value.experiences) >= 2 /\ TotalHighlights(cb.value.experiences) >= 4
    THEN <<"M", "i", "d", " ", "l", "e", "v", "e", "l">>
    ELSE <<"E", "n", "t", "r", "y", " ", "t", "o", " ", "m", "i", "d", " ", "l", "e", "v", "e", "l">>

\* job_keywords of _get_relevant_projects_for_skills: the lower-cased words of the
\* requirements and the preferred skills
JobKeywords(job_profile) ==
    UNION {{Lower(Words(text)[w]) : w \in 1..Len(Words(text))} :
              text \in {(job_profile.requirements \o job_profile.preferred_skills)[i] :
                           i \in 1..Len(job_profile.requirements \o job_profile.preferred_skills)}}

\* the test of line 401 for one project
ProjectIsRelevant(project, job_keywords) ==
    \E keyword \in job_keywords :
        ContainsText(Lower(project.name \o <<" ">> \o project.description \o <<" ">>
                           \o Join(project.technologies, <<" ">>)), keyword)

\* _get_relevant_projects_for_skills
GetRelevantProjectsForSkills(cb, job_profile) ==
    IF cb.none \/ cb.value.projects = <<>> THEN <<"N", "o", " ", "p", "r", "o", "j", "e", "c", "t", "s", " ", "a", "v", "a", "i", "l", "a", "b", "l", "e">>
    ELSE IF \E i \in 1..Len(cb.value.projects) :
               ProjectIsRelevant(cb.value.projects[i], JobKeywords(job_profile))
    THEN <<"R", "e", "l", "e", "v", "a", "n", "t", " ", "p", "r", "o", "j", "e", "c", "t", "s", ":", " ">>
         \o Join(Take(Keep([i \in 1..Len(cb.value.projects) |->
                              cb.value.projects[i].name \o <<" ", "(">>
                              \o Join(Take(cb.value.projects[i].technologies, 3), <<",", " ">>)
                              \o <<")">>],
                           {i \in 1..Len(cb.value.projects) :
                               ProjectIsRelevant(cb.value.projects[i], JobKeywords(job_profile))}),
                      3), <<",", " ">>)
    ELSE <<"P", "r", "o", "j", "e", "c", "t", "s", ":", " ">>
         \o Join(Take([i \in 1..Len(cb.value.projects) |-> cb.value.projects[i].name], 3), <<",", " ">>)

technical_categories == <<<<"p", "r", "o", "g", "r", "a", "m", "m", "i", "n", "g">>, <<"t", "e", "c", "h", "n", "i", "c", "a", "l">>, <<"l", "a", "n", "g", "u", "a", "g", "e">>, <<"f", "r", "a", "m", "e", "w", "o", "r", "k">>, <<"t", "o", "o", "l">>>>

technical_verbs ==
    <<<<"d", "e", "v", "e", "l", "o", "p", "e", "d">>, <<"b", "u", "i", "l", "t">>, <<"i", "m", "p", "l", "e", "m", "e", "n", "t", "e", "d">>, <<"d", "e", "s", "i", "g", "n", "e", "d">>, <<"p", "r", "o", "g", "r", "a", "m", "m", "e", "d">>, <<"c", "o", "d", "e", "d">>,
      <<"a", "r", "c", "h", "i", "t", "e", "c", "t", "e", "d">>>>

\* tech_skills of _build_technical_background (lines 422-426)
TechSkills(skills) ==
    Concat([i \in 1..Len(skills) |->
               IF AnyIn(technical_categories, Lower(skills[i].category))
               THEN Take(skills[i].skills, 3) ELSE <<>>])

\* tech_experience of _build_technical_background (lines 433-441)
TechExperience(experiences) ==
    Concat([i \in 1..Len(experiences) |->
               IF \E h \in 1..Len(experiences[i].highlights) :
                     AnyIn(technical_verbs, Lower(experiences[i].highlights[h]))
               THEN <<experiences[i].company \o <<":", " ">>
                      \o Take(experiences[i].highlights[
                                  CHOOSE h \in 1..Len(experiences[i].highlights) :
                                      /\ AnyIn(technical_verbs, Lower(experiences[i].highlights[h]))
                                      /\ \A g \in 1..(h - 1) :
                                            ~AnyIn(technical_verbs,
                                                   Lower(experiences[i].highlights[g]))], 50)
                      \o <<".", ".", ".">>>>
               ELSE <<>>])

\* all_technologies of _build_technical_background (lines 448-450)
AllTechnologies(projects) == Concat([i \in 1..Len(projects) |-> projects[i].technologies])

\* _build_technical_background
BuildTechnicalBackground(cb) ==
    IF cb.none THEN <<"N", "o", " ", "t", "e", "c", "h", "n", "i", "c", "a", "l", " ", "b", "a", "c", "k", "g", "r", "o", "u", "n", "d", " ", "a", "v", "a", "i", "l", "a", "b", "l", "e">>
    ELSE IF /\ TechSkills(cb.value.skills) = <<>>
            /\ TechExperience(cb.value.experiences) = <<>>
            /\ AllTechnologies(cb.value.projects) = <<>>
    THEN <<"G", "e", "n", "e", "r", "a", "l", " ", "t", "e", "c", "h", "n", "i", "c", "a", "l", " ", "b", "a", "c", "k", "g", "r", "o", "u", "n", "d">>
    ELSE Join((IF TechSkills(cb.value.skills) # <<>>
               THEN <<<<"T", "e", "c", "h", "n", "i", "c", "a", "l", " ", "S", "k", "i", "l", "l", "s", ":", " ">> \o Join(Take(TechSkills(cb.value.skills), 8), <<",", " ">>)>>
               ELSE <<>>)
              \o (IF TechExperience(cb.value.experiences) # <<>>
                  THEN <<<<"T", "e", "c", "h", "n", "i", "c", "a", "l", " ", "E", "x", "p", "e", "r", "i", "e", "n", "c", "e", ":", " ">>
                         \o Join(Take(TechExperience(cb.value.experiences), 2), <<" ", "|", " ">>)>>
                  ELSE <<>>)
              \o (IF AllTechnologies(cb.value.projects) # <<>>
                  THEN <<<<"P", "r", "o", "j", "e", "c", "t", " ", "T", "e", "c", "h", "n", "o", "l", "o", "g", "i", "e", "s", ":", " ">>
                         \o Join(Take(FirstOfEach(AllTechnologies(cb.value.projects),
                                                  AllTechnologies(cb.value.projects)), 10),
                                 <<",", " ">>)>>
                  ELSE <<>>),
              <<" ", "|", " ">>)

\* the key of a context variable
K_job_context == <<"j", "o", "b", "_", "c", "o", "n", "t", "e", "x", "t">>
K_content == <<"c", "o", "n", "t", "e", "n", "t">>
K_experiences_summary == <<"e", "x", "p", "e", "r", "i", "e", "n", "c", "e", "s", "_", "s", "u", "m", "m", "a", "r", "y">>
K_projects_summary == <<"p", "r", "o", "j", "e", "c", "t", "s", "_", "s", "u", "m", "m", "a", "r", "y">>
K_skills_summary == <<"s", "k", "i", "l", "l", "s", "_", "s", "u", "m", "m", "a", "r", "y">>
K_education_summary == <<"e", "d", "u", "c", "a", "t", "i", "o", "n", "_", "s", "u", "m", "m", "a", "r", "y">>
K_research_summary == <<"r", "e", "s", "e", "a", "r", "c", "h", "_", "s", "u", "m", "m", "a", "r", "y">>
K_full_context == <<"f", "u", "l", "l", "_", "c", "o", "n", "t", "e", "x", "t">>
K_target_skills == <<"t", "a", "r", "g", "e", "t", "_", "s", "k", "i", "l", "l", "s">>
K_user_experience_level == <<"u", "s", "e", "r", "_", "e", "x", "p", "e", "r", "i", "e", "n", "c", "e", "_", "l", "e", "v", "e", "l">>
K_relevant_projects == <<"r", "e", "l", "e", "v", "a", "n", "t", "_", "p", "r", "o", "j", "e", "c", "t", "s">>
K_technical_background == <<"t", "e", "c", "h", "n", "i", "c", "a", "l", "_", "b", "a", "c", "k", "g", "r", "o", "u", "n", "d">>

\* build_context_variables(prompt_type, content, job_profile), called without further
\* keyword arguments as the engine does
BuildContextVariables(cb, prompt_type, content, job_profile) ==
    ContextOf(
        << <<K_job_context, BuildJobContext(job_profile)>>, <<K_content, content>> >>
        \o (IF prompt_type = "summary"
            THEN << <<K_experiences_summary, BuildExperiencesSummary(cb)>>,
                    <<K_projects_summary, BuildProjectsSummary(cb)>>,
                    <<K_skills_summary, BuildSkillsSummary(cb)>>,
                    <<K_education_summary, BuildEducationSummary(cb)>> >>
                 \o (IF ~cb.none /\ cb.value.research # <<>>
                     THEN << <<K_research_summary, BuildResearchSummary(cb)>> >> ELSE <<>>)
            ELSE IF prompt_type = "experience"
            THEN << <<K_full_context, BuildFullUserContext(cb)>>,
                    <<K_target_skills, ExtractTargetSkillsFromJob(job_profile)>> >>
            ELSE IF prompt_type = "skills"
            THEN << <<K_target_skills, ExtractTargetSkillsFromJob(job_profile)>>,
                    <<K_user_experience_level, InferExperienceLevel(cb)>>,
                    <<K_relevant_projects, GetRelevantProjectsForSkills(cb, job_profile)>> >>
            ELSE IF prompt_type = "projects"
            THEN << <<K_target_skills, ExtractTargetSkillsFromJob(job_profile)>>,
                    <<K_technical_background, BuildTechnicalBackground(cb)>> >>
            ELSE <<>>))


(***************************************************************************)
(* CustomizationEngine._build_context_from_template: str.format on the     *)
(* section's context template, and the two-field text.                     *)
(***************************************************************************)
\* the result of a formatting step: the text, or the class of the exception raised
Formatted(text) == [raised |-> "", text |-> text]

FormatRaised(class) == [raised |-> class, text |-> <<>>]

\* a text in front of what the rest of the template gave
After(prefix, rest) == IF rest.raised # "" THEN rest ELSE Formatted(prefix \o rest.text)

\* a field in front of the rest of the template: the field's exception comes first
FieldThen(value, rest) == IF value.raised # "" THEN value ELSE After(value.text, rest)

\* a text of decimal digits
DigitsOnly(text) == text # <<>> /\ \A i \in 1..Len(text) : IsDigit(text[i])

\* format(value, spec) of a text for the specifications of the model: none, or a
\* width (the text padded on the right); any other one is not a str specification
FormatSpec(value, spec) ==
    IF spec = <<>> THEN Formatted(value)
    ELSE IF DigitsOnly(spec)
    THEN Formatted(value \o [i \in 1..(IntValue(spec) - Len(value)) |-> " "])
    ELSE FormatRaised("ValueError")

\* the value of one replacement field: the name up to the first ".", "[", "!" or ":",
\* looked up among the keyword arguments (a number or an empty name counts the
\* positional arguments, of which there are none), then an attribute (the model's
\* names are no attributes of str), an index, a conversion (the model's is no
\* conversion) or a format specification
FieldValue(field, stop, context_vars) ==
    IF Contains(field, "{") THEN FormatRaised("ValueError")
    ELSE IF stop = 1 \/ (\A i \in 1..(stop - 1) : IsDigit(field[i])) THEN FormatRaised("IndexError")
    ELSE IF SubSeq(field, 1, stop - 1) \notin DOMAIN context_vars THEN FormatRaised("KeyError")
    ELSE IF stop > Len(field) THEN Formatted(context_vars[SubSeq(field, 1, stop - 1)])
    ELSE IF field[stop] = "." THEN FormatRaised("AttributeError")
    ELSE IF field[stop] = "["
    THEN (IF field[Len(field)] # "]" THEN FormatRaised("ValueError")
          ELSE IF stop + 1 = Len(field) THEN FormatRaised("ValueError")
          ELSE IF ~DigitsOnly(SubSeq(field, stop + 1, Len(field) - 1))
          THEN FormatRaised("TypeError")
          ELSE IF IntValue(SubSeq(field, stop + 1, Len(field) - 1))
                     >= Len(context_vars[SubSeq(field, 1, stop - 1)])
          THEN FormatRaised("IndexError")
          ELSE Formatted(<<context_vars[SubSeq(field, 1, stop - 1)][
                               IntValue(SubSeq(field, stop + 1, Len(field) - 1)) + 1]>>))
    ELSE IF field[stop] = "!" THEN FormatRaised("ValueError")
    ELSE FormatSpec(context_vars[SubSeq(field, 1, stop - 1)], Drop(field, stop))

\* the first position of field at which the name ends, Len(field) + 1 when it does not
NameStop(field) ==
    IF \E i \in 1..Len(field) : field[i] \in {".", "[", "!", ":"}
    THEN CHOOSE i \in 1..Len(field) :
            /\ field[i] \in {".", "[", "!", ":"}
            /\ \A j \in 1..(i - 1) : field[j] \notin {".", "[", "!", ":"}
    ELSE Len(field) + 1

\* the first brace of s at or after i, 0 when there is none
FirstBrace(s, i) ==
    IF \E j \in i..Len(s) : s[j] \in {"{", "}"}
    THEN CHOOSE j \in i..Len(s) : s[j] \in {"{", "}"} /\ \A k \in i..(j - 1) : s[k] \notin {"{", "}"}
    ELSE 0

\* template.format(**context_vars) from position i on, the brace b being the next one:
\* "{{" and "}}" stand for a brace, "{...}" is a replacement field, a brace alone is
\* a ValueError; the first field that fails ends the call
RECURSIVE StrFormatFrom(_, _, _, _)
StrFormatFrom(s, i, b, context_vars) ==
    IF b = 0 THEN Formatted(SubSeq(s, i, Len(s)))
    ELSE IF b < Len(s) /\ s[b + 1] = s[b]
    THEN After(SubSeq(s, i, b),
               StrFormatFrom(s, b + 2, FirstBrace(s, b + 2), context_vars))
    ELSE IF s[b] = "}" \/ FirstClose(s, b + 1) = 0 THEN FormatRaised("ValueError")
    ELSE After(SubSeq(s, i, b - 1),
               FieldThen(FieldValue(SubSeq(s, b + 1, FirstClose(s, b + 1) - 1),
                                    NameStop(SubSeq(s, b + 1, FirstClose(s, b + 1) - 1)),
                                    context_vars),
                         StrFormatFrom(s, FirstClose(s, b + 1) + 1,
                                       FirstBrace(s, FirstClose(s, b + 1) + 1), context_vars)))

\* str.format
StrFormat(template, context_vars) ==
    StrFormatFrom(template, 1, FirstBrace(template, 1), context_vars)

\* an Optional[PromptConfig]: what get_prompt returns for a section the loader holds,
\* and None
NoConfig == [none |-> TRUE, context_template |-> <<>>]

SomeConfig(context_template) == [none |-> FALSE, context_template |-> context_template]

\* the text of lines 388, 394, 408 and 412
TwoFieldContext(job_profile, content) ==
    <<"J", "o", "b", " ", "C", "o", "n", "t", "e", "x", "t", ":", " ">> \o BuildJobContext(job_profile) \o <<"\n", "\n">>
    \o <<"O", "r", "i", "g", "i", "n", "a", "l", " ", "C", "o", "n", "t", "e", "n", "t", ":", " ">> \o content

\* a handler that returns what was formatted before the exception
FormattedOrTwoField_NoFallback(formatted, job_profile, content) == formatted.text

\* lines 402-412: the formatted template, the two-field text when formatting raised
FormattedOrTwoField(formatted, job_profile, content) ==
    IF formatted.raised # "" THEN TwoFieldContext(job_profile, content) ELSE formatted.text

\* _build_context_from_template(prompt_type, content, job_profile) on an engine with
\* the given _use_fallback_prompts, whose loader gives config for the section and
\* whose context builder holds cb
BuildContextFromTemplate(use_fallback_prompts, config, cb, prompt_type, content, job_profile) ==
    IF use_fallback_prompts \/ config.none THEN TwoFieldContext(job_profile, content)
    ELSE FormattedOrTwoField(
             StrFormat(config.context_template,
                       BuildContextVariables(cb, prompt_type, content, job_profile)),
             job_profile, content)


(***************************************************************************)
(* _build_context_from_template on templates made of two pieces, for       *)
(* every section, with and without the external configuration.             *)
(***************************************************************************)
\* a piece of a context template: its text, the variable it names (none for a piece
\* that is no replacement field), and what formatting makes of it: the variable's
\* value ("value"), a text of its own ("text") or an exception ("error")
TemplatePiece(text, name, gives, out) == [text |-> text, name |-> name, gives |-> gives, out |-> out]

FieldPiece(name) == TemplatePiece(<<"{">> \o name \o <<"}">>, name, "value", <<>>)

\* the replacement fields of the twelve variables and of a name no section has
FieldPieces ==
    {FieldPiece(n) : n \in {K_job_context, K_content, K_experiences_summary,
                            K_projects_summary, K_skills_summary, K_education_summary,
                            K_research_summary, K_full_context, K_target_skills,
                            K_user_experience_level, K_relevant_projects,
                            K_technical_background, <<"b", "a", "d">>}}

\* a literal, the two escaped braces, and fields that cannot be formatted: an
\* attribute of a text, a positional field, an index beyond the text, a brace alone
OtherPieces ==
    {TemplatePiece(<<>>, <<>>, "text", <<>>),
     TemplatePiece(<<"T", ":", " ">>, <<>>, "text", <<"T", ":", " ">>),
     TemplatePiece(<<"{", "{">>, <<>>, "text", <<"{">>),
     TemplatePiece(<<"}", "}">>, <<>>, "text", <<"}">>),
     TemplatePiece(<<"{", "c", "o", "n", "t", "e", "n", "t", ".", "x", "}">>, K_content, "error", <<>>),
     TemplatePiece(<<"{", "c", "o", "n", "t", "e", "n", "t", "[", "9", "]", "}">>, K_content, "error", <<>>),
     TemplatePiece(<<"{", "0", "}">>, <<>>, "error", <<>>),
     TemplatePiece(<<"{">>, <<>>, "error", <<>>)}

\* the second piece of a template (a brace alone after a brace alone would be an
\* escaped brace)
SecondPieces ==
    {p \in OtherPieces : p.text # <<"{">>}
    \cup {FieldPiece(n) : n \in {K_job_context, K_content, K_research_summary}}

\* the records a builder holds: one with research, a summary and a project, one
\* without, with other education and experience
ContextResumes ==
    {ResumeData(BasicInfo(<<"A", "l">>, <<>>, ContactInfo(<<"e">>, <<"5">>), <<>>), <<"s", "u", "m">>,
                <<Experience(<<"C", "o">>, <<JobTitle(<<"L", "e", "a", "d">>, <<"1">>, <<"2">>)>>, <<<<"B", "u", "i", "l", "t", " ", "x">>>>, <<>>)>>,
                <<Education(<<"S">>, <<Degree(<<<<"B", "S">>>>, <<"1">>, <<"2">>)>>, <<>>)>>,
                <<ProjectData(<<"P", "r">>, <<"d">>, None, None, <<<<"G", "o">>>>, <<>>)>>,
                <<ResearchData(<<"T">>, <<"r">>, None, <<>>, <<>>)>>,
                <<SkillCategory(<<"T", "o", "o", "l", "s">>, <<<<"k">>>>)>>),
     ResumeData(BasicInfo(<<"B", "o">>, <<>>, ContactInfo(<<"f">>, <<"6">>), <<>>), None,
                <<Experience(<<"A", "c">>, <<>>, <<<<"h">>>>, <<>>)>>,
                <<Education(<<"V">>, <<>>, <<>>)>>, <<>>, <<>>, <<>>)}

\* what the builder holds: nothing, or one of the records
ContextBuilders == {NoResume} \cup {SetResumeData(r) : r \in ContextResumes}

ContextJob == JobProfile(<<"T">>, <<"C">>, <<"D">>, <<<<"g", "o">>>>, <<>>, <<>>, <<"L">>)

\* the engine's configuration for the section: fallback prompts in use (the load
\* failed), the section absent from a loaded configuration, or a loaded section
ContextInit ==
    /\ EngineOff
    /\ fpc = "input"
    /\ \E first \in FieldPieces \cup OtherPieces, second \in SecondPieces,
          mode \in {"fallback", "absent", "active"}, cb \in ContextBuilders,
          prompt_type \in TemplateSections :
            /\ mode # "active" => second.text = <<>>
            /\ fin = [first |-> first, second |-> second, mode |-> mode, cb |-> cb,
                      prompt_type |-> prompt_type, content |-> <<"c", "d">>,
                      job_profile |-> ContextJob]
    /\ fout = <<>>

\* _build_context_from_template(prompt_type, content, job_profile)
BuildContext ==
    /\ fpc = "input"
    /\ fout' = [context |->
                   BuildContextFromTemplate(
                       fin.mode = "fallback",
                       IF fin.mode = "absent" THEN NoConfig
                       ELSE SomeConfig(fin.first.text \o fin.second.text),
                       fin.cb, fin.prompt_type, fin.content, fin.job_profile)]
    /\ fpc' = "done"
    /\ UNCHANGED fin
    /\ UNCHANGED engine_vars

ContextNext == BuildContext

SpecContext == ContextInit /\ [][ContextNext]_vars

\* the variables the context builder supplies for the call
Supplied == BuildContextVariables(fin.cb, fin.prompt_type, fin.content, fin.job_profile)

\* a piece that formatting cannot fill: a field that is malformed, or that names a
\* variable the builder does not supply
Unfillable(piece) ==
    \/ piece.gives = "error"
    \/ piece.gives = "value" /\ piece.name \notin DOMAIN Supplied

\* a piece filled in
Filled(piece) == IF piece.gives = "value" THEN Supplied[piece.name] ELSE piece.out

\* the two-field text of the claim
ClaimedTwoFields ==
    <<"J", "o", "b", " ", "C", "o", "n", "t", "e", "x", "t", ":", " ">> \o BuildJobContext(fin.job_profile) \o <<"\n", "\n">>
    \o <<"O", "r", "i", "g", "i", "n", "a", "l", " ", "C", "o", "n", "t", "e", "n", "t", ":", " ">> \o fin.content

\* C25: _build_context_from_template always returns a context: the two-field text when
\* the external configuration is not active for the section or formatting the
\* template meets a missing variable or any other formatting error, otherwise the
\* template with every placeholder filled from the context builder's variables.
C25_ContextOrTwoFields ==
    fpc = "done" =>
        fout.context =
            IF fin.mode # "active" \/ Unfillable(fin.first) \/ Unfillable(fin.second)
            THEN ClaimedTwoFields
            ELSE Filled(fin.first) \o Filled(fin.second)

\* the template "{full_context}{0}" of an active experience section gave the
\* two-field text
C25_Witness ==
    /\ fpc = "done"
    /\ fin.mode = "active"
    /\ fin.prompt_type = "experience"
    /\ fin.first = FieldPiece(K_full_context)
    /\ fin.second.text = <<"{", "0", "}">>
    /\ fin.cb # NoResume
    /\ fout.context = ClaimedTwoFields


\* a template of literals and plain replacement fields that passes
\* _validate_template_variables for the section: every name between braces is in the
\* section's allow-list
PassesValidation ==
    /\ fin.first.gives # "error"
    /\ fin.second.gives # "error"
    /\ TemplateVars(fin.first.text \o fin.second.text) \subseteq ValidVars(fin.prompt_type)

\* C30: for every section and every resume record the context builder supplies a
\* value for every name of the section's allow-list, so a context template that
\* passed validation is formatted with every field filled and never gives the
\* two-field text.
C30_AllowListSupplied ==
    (fpc = "done" /\ ~fin.cb.none) =>
        /\ valid_template_variables(fin.prompt_type) \subseteq DOMAIN Supplied
        /\ (fin.mode = "active" /\ PassesValidation) =>
              /\ fout.context = Filled(fin.first) \o Filled(fin.second)
              /\ fout.context # ClaimedTwoFields

(***************************************************************************)
(* customize_for_job on records held by value: invocations that share the  *)
(* engine's context builder, each stepping from one blocking request to    *)
(* the next, with the context of every request kept.                       *)
(***************************************************************************)
\* the context template the loaded configuration holds for a section
SectionTemplate(section) ==
    IF section = "summary" THEN <<"{", "s", "k", "i", "l", "l", "s", "_", "s", "u", "m", "m", "a", "r", "y", "}", "|", "{", "c", "o", "n", "t", "e", "n", "t", "}">>
    ELSE IF section = "experience" THEN <<"{", "f", "u", "l", "l", "_", "c", "o", "n", "t", "e", "x", "t", "}", "|", "{", "c", "o", "n", "t", "e", "n", "t", "}">>
    ELSE IF section = "skills" THEN <<"{", "u", "s", "e", "r", "_", "e", "x", "p", "e", "r", "i", "e", "n", "c", "e", "_", "l", "e", "v", "e", "l", "}", "|", "{", "c", "o", "n", "t", "e", "n", "t", "}">>
    ELSE <<"{", "t", "e", "c", "h", "n", "i", "c", "a", "l", "_", "b", "a", "c", "k", "g", "r", "o", "u", "n", "d", "}", "|", "{", "c", "o", "n", "t", "e", "n", "t", "}">>

\* a builder that was handed the working copy instead of the caller's record
HeldRecord_WorkingCopy(cb, copy) == SetResumeData(copy)

\* the record the builder reads when a context is built: the object handed to
\* set_resume_data, which is the caller's record and is written by no section
HeldRecord(cb, copy) == cb

\* the context of a request under the engine's configuration: fallback prompts in
\* use ("fallback") or a loaded configuration ("active")
RequestContext(mode, cb, section, content, job_profile) ==
    BuildContextFromTemplate(mode = "fallback", SomeConfig(SectionTemplate(section)),
                             cb, section, content, job_profile)

SentRequest(section, index, content, context) ==
    [section |-> section, index |-> index, content |-> content, context |-> context]

SectionResult(customized, sent) == [customized |-> customized, sent |-> sent]

\* lines 81-85 with enhance_summary
CustomizeSummary(c, cb, mode, job_profile, o) ==
    IF SummaryHasContent(c.summary)
    THEN SectionResult(
             [c EXCEPT !.summary = SummaryAfter(@, CustomizeContentWithParams(o))],
             <<SentRequest("summary", 0, c.summary,
                           RequestContext(mode, cb, "summary", c.summary, job_profile))>>)
    ELSE SectionResult(c, <<>>)

\* a loop that leaves an experience without highlights out of the returned list
CustomizeExperiences_DropsSkipped(c, cb, mode, job_profile, o) ==
    SectionResult(
        [c EXCEPT !.experiences =
            Keep([k \in 1..Len(@) |->
                     [@[k] EXCEPT !.highlights =
                         HighlightsAfter(@, CustomizeContentWithParams(o))]],
                 {k \in 1..Len(@) : HighlightsToOptimize(@[k]) # <<>>})],
        Keep([k \in 1..Len(c.experiences) |->
                 SentRequest("experience", k,
                     HighlightsText(HighlightsToOptimize(c.experiences[k])),
                     RequestContext(mode, cb, "experience",
                         HighlightsText(HighlightsToOptimize(c.experiences[k])),
                         job_profile))],
             {k \in 1..Len(c.experiences) : HighlightsToOptimize(c.experiences[k]) # <<>>}))

\* line 88 with optimize_experience: one request for each experience that has
\* highlights, every one of them ending as o
CustomizeExperiences(c, cb, mode, job_profile, o) ==
    SectionResult(
        [c EXCEPT !.experiences =
            [k \in 1..Len(@) |->
                IF HighlightsToOptimize(@[k]) # <<>>
                THEN [@[k] EXCEPT !.highlights =
                         HighlightsAfter(@, CustomizeContentWithParams(o))]
                ELSE @[k]]],
        Keep([k \in 1..Len(c.experiences) |->
                 SentRequest("experience", k,
                     HighlightsText(HighlightsToOptimize(c.experiences[k])),
                     RequestContext(mode, cb, "experience",
                         HighlightsText(HighlightsToOptimize(c.experiences[k])),
                         job_profile))],
             {k \in 1..Len(c.experiences) : HighlightsToOptimize(c.experiences[k]) # <<>>}))

\* line 91 with adjust_skills
CustomizeSkills(c, cb, mode, job_profile, o) ==
    IF c.skills = <<>> THEN SectionResult(c, <<>>)
    ELSE SectionResult(
             [c EXCEPT !.skills = SkillsAfter(@, CustomizeContentWithParams(o))],
             <<SentRequest("skills", 0, Strip(SkillsText(c.skills)),
                           RequestContext(mode, cb, "skills", Strip(SkillsText(c.skills)),
                                          job_profile))>>)

\* what optimize_projects returns for the transport's answer
ProjectListAfter(projects, resp) ==
    IF resp.success THEN ProjectsOfLines(Split(resp.content, "\n"), projects, -1)
    ELSE projects

\* line 94 with optimize_projects
CustomizeProjects(c, cb, mode, job_profile, o) ==
    IF c.projects = <<>> THEN SectionResult(c, <<>>)
    ELSE SectionResult(
             [c EXCEPT !.projects = ProjectListAfter(@, CustomizeContentWithParams(o))],
             <<SentRequest("projects", 0, Strip(ProjectsText(c.projects)),
                           RequestContext(mode, cb, "projects",
                                          Strip(ProjectsText(c.projects)), job_profile))>>)

\* one section of customize_for_job on the copy c, with the builder holding cb
CustomizeSection(section, c, cb, mode, job_profile, o) ==
    IF section = "summary" THEN CustomizeSummary(c, cb, mode, job_profile, o)
    ELSE IF section = "experience" THEN CustomizeExperiences(c, cb, mode, job_profile, o)
    ELSE IF section = "skills" THEN CustomizeSkills(c, cb, mode, job_profile, o)
    ELSE CustomizeProjects(c, cb, mode, job_profile, o)

\* the sections in the order of the statements of customize_for_job
CanonicalOrder == <<"summary", "experience", "skills", "projects">>

\* an invocation: its arguments, how its health check and the requests of each
\* section end, and the order in which it takes the sections
Invocation(r, job_profile, probe, outcomes, order) ==
    [resume_data |-> r, job_profile |-> job_profile, probe |-> probe,
     outcomes |-> outcomes, order |-> order]

\* a request of a section times out, or is answered by a text the section can parse
SectionOutcomes(section) ==
    {ExceptionOutcome("timeout"),
     HttpOutcome(200, TRUE,
         IF section = "summary" THEN <<" ", "t">>
         ELSE IF section = "experience" THEN <<"-", " ", "y">>
         ELSE IF section = "skills" THEN <<"c", ":", "\n", "-", " ", "j">>
         ELSE T_Project \o <<"1", ":", "\n">> \o T_Description \o <<" ", "e">>)}

AllOutcomes == [TemplateSections -> UNION {SectionOutcomes(s) : s \in TemplateSections}]

\* how the requests of the four sections end
InvocationOutcomes == {f \in AllOutcomes : \A s \in TemplateSections : f[s] \in SectionOutcomes(s)}

\* every request fails, or every request is answered
UniformOutcomes ==
    {f \in InvocationOutcomes :
        \A s, t \in TemplateSections : (f[s].kind = "http") = (f[t].kind = "http")}

OtherJob == JobProfile(<<"U">>, <<"E">>, <<"F">>, <<<<"p", "y">>>>, <<>>, <<>>, <<"M">>)

\* positions of an invocation: before line 71, at the health check, at its k-th
\* section, returned
AtStart == [at |-> "start", k |-> 0]
AtProbe == [at |-> "probe", k |-> 0]
AtSection(k) == [at |-> "section", k |-> k]
AtReturn == [at |-> "returned", k |-> 0]

\* the state before any invocation has started: the builder holds no record
InvocationsInit(mode, runs) ==
    /\ EngineOff
    /\ fin = [mode |-> mode, runs |-> runs]
    /\ fpc = [i \in DOMAIN runs |-> AtStart]
    /\ fout = [cb |-> NoResume,
               runs |-> [i \in DOMAIN runs |-> SectionResult(<<>>, <<>>)]]

\* lines 71-74: the deep copy, and the caller's record handed to the shared builder
CopyAndSet(i) ==
    /\ fpc[i] = AtStart
    /\ fout' = [fout EXCEPT !.cb = SetResumeData(fin.runs[i].resume_data),
                            !.runs[i].customized = fin.runs[i].resume_data]
    /\ fpc' = [fpc EXCEPT ![i] = AtProbe]
    /\ UNCHANGED fin
    /\ UNCHANGED engine_vars

\* lines 77-79: the health check; an endpoint that is not available returns the copy
ProbeEndpoint(i) ==
    /\ fpc[i] = AtProbe
    /\ fpc' = [fpc EXCEPT ![i] = IF IsAvailable(fin.runs[i].probe) THEN AtSection(1) ELSE AtReturn]
    /\ UNCHANGED <<fin, fout>>
    /\ UNCHANGED engine_vars

\* one of lines 81-94: the contexts are built from what the builder holds now, the
\* requests are answered and the section of the copy is written
TakeSection(i) ==
    /\ fpc[i].at = "section"
    /\ fout' = [fout EXCEPT !.runs[i] =
                   LET r == CustomizeSection(fin.runs[i].order[fpc[i].k], @.customized,
                                HeldRecord(fout.cb, @.customized), fin.mode,
                                fin.runs[i].job_profile,
                                fin.runs[i].outcomes[fin.runs[i].order[fpc[i].k]])
                   IN  SectionResult(r.customized, @.sent \o r.sent)]
    /\ fpc' = [fpc EXCEPT ![i] = IF @.k = Len(fin.runs[i].order) THEN AtReturn
                                  ELSE AtSection(@.k + 1)]
    /\ UNCHANGED fin
    /\ UNCHANGED engine_vars

InvocationsNext == \E i \in DOMAIN fpc : CopyAndSet(i) \/ ProbeEndpoint(i) \/ TakeSection(i)

\* what an invocation returns and sends when no other invocation runs
RECURSIVE SectionsAlone(_, _, _, _)
SectionsAlone(run, mode, k, done) ==
    IF k > Len(CanonicalOrder) THEN done
    ELSE LET r == CustomizeSection(CanonicalOrder[k], done.customized,
                      SetResumeData(run.resume_data), mode, run.job_profile,
                      run.outcomes[CanonicalOrder[k]])
         IN  SectionsAlone(run, mode, k + 1,
                           SectionResult(r.customized, done.sent \o r.sent))

Alone(run, mode) ==
    IF IsAvailable(run.probe)
    THEN SectionsAlone(run, mode, 1, SectionResult(run.resume_data, <<>>))
    ELSE SectionResult(run.resume_data, <<>>)

(***************************************************************************)
(* Two invocations for different resumes and jobs on one engine.           *)
(***************************************************************************)
ConcurrentInit ==
    \E ra \in ContextResumes, rb \in ContextResumes, pa \in ProbeOutcomes,
       pb \in ProbeOutcomes, oa \in UniformOutcomes, ob \in UniformOutcomes,
       mode \in {"fallback", "active"} :
        /\ ra # rb
        /\ InvocationsInit(mode, <<Invocation(ra, ContextJob, pa, oa, CanonicalOrder),
                                   Invocation(rb, OtherJob, pb, ob, CanonicalOrder)>>)

SpecConcurrent == ConcurrentInit /\ [][InvocationsNext]_vars

\* the request was built from the invocation's own arguments only
OwnContext(run, mode, request) ==
    request.context =
        RequestContext(mode, SetResumeData(run.resume_data), request.section,
                       request.content, run.job_profile)

\* C21: when two invocations for different resumes interleave on the same engine,
\* every prompt context an invocation sends is built only from its own resume and
\* job description, and each invocation returns the same record as it would when
\* run alone with the same transport responses.
C21_NoSharedState ==
    \A i \in DOMAIN fpc :
        /\ \A k \in 1..Len(fout.runs[i].sent) :
               OwnContext(fin.runs[i], fin.mode, fout.runs[i].sent[k])
        /\ fpc[i] = AtReturn =>
               fout.runs[i].customized = Alone(fin.runs[i], fin.mode).customized

\* the second half of C21 alone: every invocation returns what it returns alone
C21_ReturnsAsAlone ==
    \A i \in DOMAIN fpc :
        fpc[i] = AtReturn => fout.runs[i].customized = Alone(fin.runs[i], fin.mode).customized

(***************************************************************************)
(* One invocation that takes the four sections in any order.               *)
(***************************************************************************)
\* the orders in which four statements can stand
SectionOrders ==
    {o \in [1..4 -> TemplateSections] : \A s \in TemplateSections : \E k \in 1..4 : o[k] = s}

SectionsInit ==
    \E r \in ContextResumes, p \in ProbeOutcomes, o \in InvocationOutcomes,
       order \in SectionOrders, mode \in {"fallback", "active"} :
        InvocationsInit(mode, <<Invocation(r, ContextJob, p, o, order)>>)

SpecSections == SectionsInit /\ [][InvocationsNext]_vars

\* every request of `run` is one of `other`, and once `run` has returned it holds the
\* record of `other` and as many requests
SentAndReturnedAs(run, other, returned) ==
    /\ \A k \in 1..Len(run.sent) : \E j \in 1..Len(other.sent) : run.sent[k] = other.sent[j]
    /\ returned => run.customized = other.customized /\ Len(run.sent) = Len(other.sent)

\* C26: the context sent for a section and the content written for it depend only
\* on the input record, the job description and that section's own response: in
\* whatever order the four sections are taken, every request sent is one the
\* statement order of customize_for_job sends for the same input and responses, and
\* the record returned is the one that order returns, with all of its requests sent.
C26_SectionsIndependent ==
    SentAndReturnedAs(fout.runs[1], Alone(fin.runs[1], fin.mode), fpc[1] = AtReturn)

\* an invocation with a loaded configuration took projects, skills, experiences and
\* the summary in that order, every request was answered, and all four sections of
\* the returned record differ from the input's
C26_Witness ==
    /\ fpc[1] = AtReturn
    /\ fin.mode = "active"
    /\ fin.runs[1].order = <<"projects", "skills", "experience", "summary">>
    /\ Len(fout.runs[1].sent) = 4
    /\ fout.runs[1].customized.summary # fin.runs[1].resume_data.summary
    /\ fout.runs[1].customized.experiences # fin.runs[1].resume_data.experiences
    /\ fout.runs[1].customized.skills # fin.runs[1].resume_data.skills
    /\ fout.runs[1].customized.projects # fin.runs[1].resume_data.projects

(***************************************************************************)
(* optimize_experience on lists of experiences with up to two final and    *)
(* two unedited highlights each.                                           *)
(***************************************************************************)
MaxOptimized == 2

\* final highlights and unedited highlights an experience can hold
FinalLists == {<<>>, <<<<"x">>>>, <<<<"x">>, <<"y", " ", "z">>>>}
UneditedLists == {<<>>, <<<<"u">>>>, <<<<"u">>, <<"v", " ", "w">>>>}

OptimizedInputs ==
    {Experience(<<"A">>, <<JobTitle(<<"T">>, <<"1">>, <<"2">>)>>, h, u) :
        h \in FinalLists, u \in UneditedLists}

\* the requests time out, or are answered by a text without a highlight line or by
\* one with two
OptimizedOutcomes ==
    {ExceptionOutcome("timeout"), HttpOutcome(200, TRUE, <<"-">>),
     HttpOutcome(200, TRUE, <<"-", " ", "p", "\n", "q">>)}

OptimizeInit ==
    /\ EngineOff
    /\ fpc = "input"
    /\ \E experiences \in SeqsUpTo(OptimizedInputs, MaxOptimized), o \in OptimizedOutcomes :
           fin = [experiences |-> experiences, job_profile |-> ContextJob, outcome |-> o]
    /\ fout = <<>>

\* optimize_experience(experiences, job_profile) on an engine that uses its fallback
\* prompts: the requests sent and the list returned
OptimizeExperience ==
    /\ fpc = "input"
    /\ fout' = CustomizeExperiences([experiences |-> fin.experiences], NoResume, "fallback",
                                    fin.job_profile, fin.outcome)
    /\ fpc' = "done"
    /\ UNCHANGED fin
    /\ UNCHANGED engine_vars

OptimizeNext == OptimizeExperience

SpecOptimize == OptimizeInit /\ [][OptimizeNext]_vars

\* one "- <highlight>" line per entry, in order, with a line end between two lines
RECURSIVE DashLines(_)
DashLines(hs) ==
    IF hs = <<>> THEN <<>>
    ELSE <<"-", " ">> \o Head(hs) \o (IF Len(hs) > 1 THEN <<"\n">> ELSE <<>>)
         \o DashLines(Tail(hs))

\* the experiences of the input for which a request is sent, in order
WithHighlights ==
    Keep([k \in 1..Len(fin.experiences) |-> k],
         {k \in 1..Len(fin.experiences) :
             fin.experiences[k].unedited # <<>> \/ fin.experiences[k].highlights # <<>>})

\* the highlights parsed from the answer of the transport, none when it failed
ParsedHighlights ==
    IF fin.outcome.kind = "http" THEN ParseHighlights(Strip(fin.outcome.raw)) ELSE <<>>

\* C27: optimize_experience builds the text it sends for an experience from the
\* unedited list when that list is non-empty and from the final highlights otherwise
\* (one "- <highlight>" line per entry, in order); a successful parse replaces only
\* the final highlights, and the unedited list, company and titles of the returned
\* experience always equal the input's.
C27_UneditedPreferred ==
    fpc = "done" =>
        /\ Len(fout.sent) = Len(WithHighlights)
        /\ \A n \in 1..Len(fout.sent) :
               /\ fout.sent[n].index = WithHighlights[n]
               /\ fout.sent[n].content =
                      DashLines(IF fin.experiences[WithHighlights[n]].unedited # <<>>
                                THEN fin.experiences[WithHighlights[n]].unedited
                                ELSE fin.experiences[WithHighlights[n]].highlights)
        /\ Len(fout.customized.experiences) = Len(fin.experiences)
        /\ \A k \in 1..Len(fin.experiences) :
               /\ fout.customized.experiences[k].unedited = fin.experiences[k].unedited
               /\ fout.customized.experiences[k].company = fin.experiences[k].company
               /\ fout.customized.experiences[k].titles = fin.experiences[k].titles
               /\ fout.customized.experiences[k].highlights =
                      IF (\E n \in 1..Len(WithHighlights) : WithHighlights[n] = k)
                         /\ ParsedHighlights # <<>>
                      THEN ParsedHighlights ELSE fin.experiences[k].highlights

\* an experience with two unedited and two final highlights was sent as
\* "- u\n- v w", the answer was parsed, and only its final highlights changed
C27_Witness ==
    /\ fpc = "done"
    /\ Len(fin.experiences) = 2
    /\ fin.experiences[2].unedited = <<<<"u">>, <<"v", " ", "w">>>>
    /\ fin.experiences[2].highlights = <<<<"x">>, <<"y", " ", "z">>>>
    /\ fin.experiences[1].unedited = <<>>
    /\ fin.experiences[1].highlights = <<<<"x">>>>
    /\ fout.sent[1].content = <<"-", " ", "x">>
    /\ fout.sent[2].content = <<"-", " ", "u", "\n", "-", " ", "v", " ", "w">>
    /\ fout.customized.experiences[2].highlights = <<<<"p">>, <<"q">>>>
    /\ fout.customized.experiences[2].unedited = <<<<"u">>, <<"v", " ", "w">>>>

(***************************************************************************)
(* One invocation on valid and invalid records, with answers chosen to     *)
(* lead the parsers astray.                                                *)
(***************************************************************************)
\* two valid records (one with every section filled and an experience without
\* highlights, one with the identity block only) and one without an address
ReturnedResumes ==
    {ResumeData(BasicInfo(<<"A", "l">>, <<<<"s">>>>, ContactInfo(<<"e">>, <<"5">>), <<>>), <<"s", "u", "m">>,
                <<Experience(<<"C", "o">>, <<JobTitle(<<"L", "e", "a", "d">>, <<"1">>, <<"2">>)>>, <<<<"B", "u", "i", "l", "t", " ", "x">>>>, <<>>),
                  Experience(<<"A", "c">>, <<JobTitle(<<"D", "e", "v">>, <<"0">>, <<"1">>)>>, <<>>, <<>>)>>,
                <<Education(<<"S">>, <<Degree(<<<<"B", "S">>>>, <<"1">>, <<"2">>)>>, <<>>)>>,
                <<ProjectData(<<"P", "r">>, <<"d">>, None, None, <<<<"G", "o">>>>, <<>>)>>,
                <<ResearchData(<<"T">>, <<"r">>, None, <<>>, <<>>)>>,
                <<SkillCategory(<<"T", "o", "o", "l", "s">>, <<<<"k">>>>)>>),
     ResumeData(BasicInfo(<<"B", "o">>, <<<<"s">>>>, ContactInfo(<<"f">>, <<"6">>), <<>>), None,
                <<>>, <<>>, <<>>, <<>>, <<>>),
     ResumeData(BasicInfo(<<"C", "y">>, <<>>, ContactInfo(<<"g">>, <<"7">>), <<>>), <<"s", "u", "m">>,
                <<Experience(<<"C", "o">>, <<>>, <<<<"h">>>>, <<>>)>>, <<>>,
                <<ProjectData(<<"P", "r">>, <<"d">>, None, None, <<>>, <<>>)>>, <<>>,
                <<SkillCategory(<<"T", "o", "o", "l", "s">>, <<<<"k">>>>)>>)}

\* answers of the transport: for the summary a blank and a text; for an experience
\* a dash and a highlight; for the skills a header without a label, a header without
\* skills, a skill without text, a dashed header, and a category after a header
\* without label; for the projects a description without text, with text, without a
\* project number, and a name without text
ReturnedTexts(section) ==
    IF section = "summary" THEN {<<" ">>, <<" ", "t">>}
    ELSE IF section = "experience" THEN {<<"-">>, <<"-", " ", "y">>}
    ELSE IF section = "skills"
    THEN {<<":", "\n", "-", " ", "x">>, <<"A", ":">>, <<"A", ":", "\n", "-", " ">>,
          <<"-", "a", ":", "\n", "-", " ", "x">>,
          <<" ", ":", "\n", "-", " ", "x", "\n", "c", ":", "\n", "-", " ", "j">>}
    ELSE {T_Project \o <<"1", ":", "\n">> \o T_Description,
          T_Project \o <<"1", ":", "\n">> \o T_Description \o <<" ", "e">>,
          T_Description \o <<" ", "e">>,
          T_Project \o <<"1", ":", "\n">> \o <<"N", "a", "m", "e", ":", " ">> \o <<"\n">> \o T_Description \o <<" ", " ">>}

ReturnedOutcomes ==
    {f \in [TemplateSections ->
               {ExceptionOutcome("timeout")}
               \cup {HttpOutcome(200, TRUE, t) : t \in UNION {ReturnedTexts(s) : s \in TemplateSections}}] :
        \A s \in TemplateSections : f[s].kind = "http" => f[s].raw \in ReturnedTexts(s)}

ReturnedInit ==
    \E r \in ReturnedResumes, p \in ProbeOutcomes, o \in ReturnedOutcomes :
        InvocationsInit("fallback", <<Invocation(r, ContextJob, p, o, CanonicalOrder)>>)

SpecReturned == ReturnedInit /\ [][InvocationsNext]_vars

\* C28: customize_for_job preserves validity: if validate() of the input record
\* returns no errors, validate() of the returned record returns no errors for every
\* combination of transport results and response texts; every returned skill
\* category has a non-blank label and at least one skill, every returned experience
\* keeps at least one job title, and every returned project keeps a non-blank name
\* and description.
C28_ValidityPreserved ==
    (fpc[1] = AtReturn /\ Validate(fin.runs[1].resume_data) = <<>>) =>
        /\ Validate(fout.runs[1].customized) = <<>>
        /\ \A i \in 1..Len(fout.runs[1].customized.skills) :
               /\ ~Blank(fout.runs[1].customized.skills[i].category)
               /\ fout.runs[1].customized.skills[i].skills # <<>>
        /\ \A i \in 1..Len(fout.runs[1].customized.experiences) :
               fout.runs[1].customized.experiences[i].titles # <<>>
        /\ \A i \in 1..Len(fout.runs[1].customized.projects) :
               /\ ~Blank(fout.runs[1].customized.projects[i].name)
               /\ ~Blank(fout.runs[1].customized.projects[i].description)

\* a valid record was returned after the skills were answered by a header without
\* label followed by a category, and the projects by a description without text:
\* the skills are the one category, the description is the input's
C28_Witness ==
    /\ fpc[1] = AtReturn
    /\ Validate(fin.runs[1].resume_data) = <<>>
    /\ fin.runs[1].outcomes["skills"].kind = "http"
    /\ fin.runs[1].outcomes["projects"].kind = "http"
    /\ fin.runs[1].outcomes["projects"].raw = T_Project \o <<"1", ":", "\n">> \o T_Description
    /\ fout.runs[1].customized.skills = <<SkillCategory(<<"c">>, <<<<"j">>>>)>>
    /\ fout.runs[1].customized.projects = fin.runs[1].resume_data.projects
    /\ Len(fout.runs[1].sent) = 4


\* C29: customize_for_job changes at most the summary, the final highlights of
\* experiences, the skills list and the descriptions of projects: in every outcome
\* the returned record's identity block (basic), education and research lists equal
\* the input's, its experience list has the same length and order as the input's, and
\* nothing but the final highlights of an experience and the description of a project
\* differs.
C29_FrameOfCustomization ==
    fpc[1] = AtReturn =>
        /\ fout.runs[1].customized.basic = fin.runs[1].resume_data.basic
        /\ fout.runs[1].customized.education = fin.runs[1].resume_data.education
        /\ fout.runs[1].customized.research = fin.runs[1].resume_data.research
        /\ Len(fout.runs[1].customized.experiences) = Len(fin.runs[1].resume_data.experiences)
        /\ \A k \in 1..Len(fin.runs[1].resume_data.experiences) :
               [fout.runs[1].customized.experiences[k] EXCEPT !.highlights = <<>>]
                   = [fin.runs[1].resume_data.experiences[k] EXCEPT !.highlights = <<>>]
        /\ Len(fout.runs[1].customized.projects) = Len(fin.runs[1].resume_data.projects)
        /\ \A k \in 1..Len(fin.runs[1].resume_data.projects) :
               [fout.runs[1].customized.projects[k] EXCEPT !.description = <<>>]
                   = [fin.runs[1].resume_data.projects[k] EXCEPT !.description = <<>>]

\* the record with two experiences was returned with a new summary, new highlights
\* of its first experience, new skills and a new project description
C29_Witness ==
    /\ fpc[1] = AtReturn
    /\ Len(fin.runs[1].resume_data.experiences) = 2
    /\ fout.runs[1].customized.summary = <<"t">>
    /\ fout.runs[1].customized.experiences[1].highlights = <<<<"y">>>>
    /\ fout.runs[1].customized.experiences[2].company = <<"A", "c">>
    /\ fout.runs[1].customized.skills # fin.runs[1].resume_data.skills
    /\ fout.runs[1].customized.projects[1].description = <<"e">>

====
